---- MODULE Spec2Model ----
(***************************************************************************)
(* A model of the recording log of replay-cli (packages/replay/src/main.ts *)
(* and packages/replayio/src/utils/recordings/removeFromDisk.ts): the fold  *)
(* of the log into recordings, the upload of recordings (single and batch) *)
(* and the removal of recordings and of their asset files.                 *)
(***************************************************************************)
EXTENDS Integers, Sequences, FiniteSets, TLC

VARIABLES
  recordings,  \* readRecordings: the local array `recordings` while the log is folded
  nread,       \* readRecordings: the number of lines of the log consumed so far
  prevStatus,  \* observation: the status the recording of the last line had before it
  lastLine,    \* observation: the last line consumed by the loop
  log,         \* the lines of recordings.log
  disk,        \* the files present on disk
  tasks,       \* one entry per call of doUploadRecording: its position and locals
  call,        \* the running top-level call (uploadRecording, uploadAllRecordings, ...)
  removed,     \* observation: the files the last removal deleted
  retrying,    \* retry: the locals of the running call and what it has done
  reporter,    \* ReplayReporter: pendingWork, the post-test work and the call of onEnd
  wrapper      \* cypressOnWrapper: its closure, the calls of base and the dispatch

foldVars == <<recordings, nread, prevStatus, lastLine>>
fileVars == <<log, disk>>
callVars == <<tasks, call, removed>>

----------------------------------------------------------------------------
(* Bounds of the model *)

\* number of distinct recording ids
MaxRecordings == 2
\* number of lines of the log that the fold consumes
MaxLines == 5
\* number of distinct source-map files
MaxSourcemaps == 1

----------------------------------------------------------------------------
(* Values *)

\* `undefined` for an id-valued field (recordingId) and `null` for a result
Undefined == 0
Null == 0
\* `undefined` for a path, a server or a reason
NoValue == <<>>

RecordingIds == 1..MaxRecordings
\* the ids of source maps are not ids of recordings
SourcemapIds == {200 + k : k \in 1..MaxSourcemaps}

\* the data file the driver writes recording id to
DataFile(id) == <<"recording", id>>
\* source-map files end in ".map"; original sources do not
MapFile(k) == <<"sourcemap.map", k>>
OriginalFile(k) == <<"original", k>>

Server == <<"wss://dispatch.replay.io">>

\* the id the remote service gives to the upload of recording id: the service
\* is free to answer the local id or another one
RemoteIds(id) == {id, 100 + id}

\* The filter functions given as opts.filter: none, a filter of the user that
\* keeps the recordings on disk, and the filter of removeRecordingAssets, which
\* keeps the recordings other than `id` that are not uploaded.
NoFilter == [name |-> "none", id |-> Undefined]
OnDiskFilter == [name |-> "onDisk", id |-> Undefined]
LocalFilter(id) == [name |-> "local", id |-> id]

Statuses ==
  {"unknown", "startedWrite", "onDisk", "startedUpload", "uploaded",
   "unusable", "crashed", "crashUploaded"}

----------------------------------------------------------------------------
(* The fold of the log: readRecordings *)

\* A line of the log. `kind` is "invalid" for a line that is not JSON, "empty"
\* for the empty text, "null" for the JSON text null and "scalar" for any other
\* JSON text that is not an object (a number, a string, an array); `id` is
\* obj.id (obj.parentId for originalSourceAdded, which has no id),
\* `recordingId` is obj.recordingId and `arg` carries the remaining field of
\* the kind (path, server, reason, data).
Line(kind, id, recordingId, arg) ==
  [kind |-> kind, id |-> id, recordingId |-> recordingId, arg |-> arg]

\* recordings.find(r => r.id == id): the index of the first match, 0 if none
RECURSIVE FindFrom(_, _, _)
FindFrom(recs, id, i) ==
  IF i > Len(recs) THEN 0
  ELSE IF recs[i].id = id THEN i
  ELSE FindFrom(recs, id, i + 1)

Find(recs, id) == FindFrom(recs, id, 1)

\* updateStatus without the guard on crashed
updateStatus_crashedNotSink(status, newStatus) ==
  IF status = "unusable" \/ status = "crashUploaded" THEN status ELSE newStatus

updateStatus(status, newStatus) ==
  IF \/ status = "unusable"
     \/ status = "crashUploaded"
     \/ (status = "crashed" /\ newStatus # "crashUploaded")
  THEN status
  ELSE newStatus

\* A build id is the sequence of its characters.
Dash == "-"

\* the index of the first dash of buildId at or after i, 0 if there is none
RECURSIVE DashFrom(_, _)
DashFrom(buildId, i) ==
  IF i > Len(buildId) THEN 0
  ELSE IF buildId[i] = Dash THEN i
  ELSE DashFrom(buildId, i + 1)

Unknown == <<"u", "n", "k", "n", "o", "w", "n">>

\* the build id "2023-chromium-x" and its runtime
ChromiumBuildId ==
  <<"2", "0", "2", "3", "-", "c", "h", "r", "o", "m", "i", "u", "m", "-", "x">>
Chromium == <<"c", "h", "r", "o", "m", "i", "u", "m">>

\* getBuildRuntime that takes what precedes the first dash
getBuildRuntime_firstSegment(buildId) ==
  IF DashFrom(buildId, 1) = 0 THEN Unknown
  ELSE SubSeq(buildId, 1, DashFrom(buildId, 1) - 1)

\* getBuildRuntime: /.*?-(.*?)-/ matches up to the first dash that another dash
\* follows and captures what lies between the two
getBuildRuntime(buildId) ==
  LET first == DashFrom(buildId, 1)
      second == IF first = 0 THEN 0 ELSE DashFrom(buildId, first + 1)
  IN IF second = 0 THEN Unknown ELSE SubSeq(buildId, first + 1, second - 1)

\* A metadata object is a function from the keys it has to their values.
NoMetadata == <<>>
\* the metadata of a recording of a page, and metadata that gives a title
UriMetadata == [k \in {"uri"} |-> <<"replay.io">>]
TitleMetadata == [k \in {"title"} |-> <<"A title">>]

\* Object.assign(target, source)
Assign(target, source) ==
  [k \in DOMAIN target \cup DOMAIN source |->
     IF k \in DOMAIN source THEN source[k] ELSE target[k]]

\* generateDefaultTitle: the title made of metadata.uri, undefined without one
generateDefaultTitle(metadata) ==
  IF "uri" \in DOMAIN metadata THEN <<"Replay of", metadata["uri"]>> ELSE NoValue

\* the case addMetadata of readRecordings
AddMetadata(old, metadata) ==
  LET merged == Assign(old, metadata)
      title == generateDefaultTitle(merged)
  IN IF "title" \in DOMAIN merged \/ title = NoValue
     THEN merged
     ELSE Assign(merged, [k \in {"title"} |-> title])

\* createRecording taking createTime from the clock, which the number of the
\* calls made so far stands for
NewRecording_createdNow(id, buildId) ==
  [id |-> id, createTime |-> <<"now", call.n>>, buildId |-> buildId,
   runtime |-> getBuildRuntime(buildId), metadata |-> NoMetadata,
   status |-> "unknown", path |-> NoValue, server |-> NoValue,
   recordingId |-> Undefined, unusableReason |-> NoValue,
   crashData |-> <<>>, sourcemaps |-> <<>>]

\* the recording readRecordings pushes for createRecording; every line of the
\* model bears the same timestamp, which createTime is made of
NewRecording(id, buildId) ==
  [id |-> id, createTime |-> <<"timestamp">>, buildId |-> buildId,
   runtime |-> getBuildRuntime(buildId), metadata |-> NoMetadata,
   status |-> "unknown", path |-> NoValue, server |-> NoValue,
   recordingId |-> Undefined, unusableReason |-> NoValue,
   crashData |-> <<>>, sourcemaps |-> <<>>]

\* sourcemap.originalSources.push on the first source map whose id is parentId
RECURSIVE AddOriginalSource(_, _, _, _)
AddOriginalSource(sms, parentId, path, i) ==
  IF i > Len(sms) THEN sms
  ELSE IF sms[i].id = parentId
       THEN [sms EXCEPT ![i].originalSources = Append(@, path)]
       ELSE AddOriginalSource(sms, parentId, path, i + 1)

\* JSON.parse(line) throws, which readRecordings catches
JSONParseThrows(line) == line.kind \in {"invalid", "empty"}

\* the loop of readRecordings without the try around JSON.parse
Raises_noCatch(line) == line.kind \in {"invalid", "empty", "null"}

\* The loop body raises an error nothing catches: JSON.parse("null") is null,
\* and reading obj.kind of null is a TypeError. A number, a string or an array
\* has no property kind and matches no case.
Raises(line) == line.kind = "null"

\* one iteration of the loop of readRecordings: the switch on obj.kind, for a
\* line on which the body does not raise
ApplyLine(recs, line) ==
  LET i == IF line.kind \in {"sourcemapAdded", "originalSourceAdded"}
           THEN Find(recs, line.recordingId)
           ELSE Find(recs, line.id)
  IN
  IF JSONParseThrows(line) THEN recs
  ELSE IF line.kind = "createRecording"
       THEN Append(recs, NewRecording(line.id, line.arg))
  ELSE IF i = 0 THEN recs
  ELSE CASE line.kind = "addMetadata" ->
              [recs EXCEPT ![i].metadata = AddMetadata(@, line.arg)]
         [] line.kind = "writeStarted" ->
              [recs EXCEPT ![i].status = updateStatus(@, "startedWrite"),
                           ![i].path = line.arg]
         [] line.kind = "writeFinished" ->
              [recs EXCEPT ![i].status = updateStatus(@, "onDisk")]
         [] line.kind = "uploadStarted" ->
              [recs EXCEPT ![i].status = updateStatus(@, "startedUpload"),
                           ![i].server = line.arg,
                           ![i].recordingId = line.recordingId]
         [] line.kind = "uploadFinished" ->
              [recs EXCEPT ![i].status = updateStatus(@, "uploaded")]
         [] line.kind = "recordingUnusable" ->
              [recs EXCEPT ![i].status = updateStatus(@, "unusable"),
                           ![i].unusableReason = line.arg]
         [] line.kind = "crashed" ->
              [recs EXCEPT ![i].status = updateStatus(@, "crashed")]
         [] line.kind = "crashData" ->
              [recs EXCEPT ![i].crashData = Append(@, line.arg)]
         [] line.kind = "crashUploaded" ->
              [recs EXCEPT ![i].status = updateStatus(@, "crashUploaded")]
         [] line.kind = "sourcemapAdded" ->
              [recs EXCEPT ![i].sourcemaps =
                 Append(@, [id |-> line.id, path |-> line.arg,
                            originalSources |-> <<>>])]
         [] line.kind = "originalSourceAdded" ->
              [recs EXCEPT ![i].sourcemaps =
                 AddOriginalSource(@, line.id, line.arg, 1)]
         [] OTHER -> recs

Hidden == <<"No interesting content">>
NoContent == <<"other reason">>

RECURSIVE FoldLines(_, _)
FoldLines(recs, lines) ==
  \* (the test of recs is never true: it has TLC evaluate the array at every
  \* line, so that a long log does not nest the evaluations of ApplyLine)
  IF lines = <<>> \/ Len(recs) < 0 THEN recs
  ELSE FoldLines(ApplyLine(recs, Head(lines)), Tail(lines))

\* what readRecordings returns of its array: all of it, or the recordings whose
\* unusableReason does not say "No interesting content"
Returned(recs, includeHidden) ==
  LET Shown(r) == r.unusableReason # Hidden
  IN IF includeHidden THEN recs ELSE SelectSeq(recs, Shown)

\* readRecordings on a log none of whose lines makes the loop body raise
readRecordings(lines, includeHidden) ==
  Returned(FoldLines(<<>>, lines), includeHidden)

----------------------------------------------------------------------------
(* Spec: the loop of readRecordings over the lines of any log *)

\* the lines the fold is given
Lines ==
  {Line(k, id, Undefined, NoValue) :
     k \in {"writeFinished", "uploadFinished", "crashed", "crashUploaded"},
     id \in RecordingIds}
  \cup {Line("createRecording", id, Undefined, ChromiumBuildId) : id \in RecordingIds}
  \cup {Line("writeStarted", id, Undefined, DataFile(id)) : id \in RecordingIds}
  \cup {Line("uploadStarted", id, 100 + id, Server) : id \in RecordingIds}
  \cup {Line("recordingUnusable", id, Undefined, r) :
          id \in RecordingIds, r \in {Hidden, NoContent}}
  \cup {Line("crashData", id, Undefined, <<"data">>) : id \in RecordingIds}
  \cup {Line("sourcemapAdded", k, id, MapFile(k)) :
          k \in SourcemapIds, id \in RecordingIds}
  \cup {Line("originalSourceAdded", k, id, OriginalFile(k)) :
          k \in SourcemapIds, id \in RecordingIds}
  \cup {Line(k, Undefined, Undefined, NoValue) :
          k \in {"invalid", "empty", "null", "scalar"}}

\* retry has not been called
NoRetry ==
  [pc |-> "idle", strategy |-> "none", maxAttempts |-> 0, currentAttempt |-> 0,
   onFail |-> FALSE, invoked |-> 0, failed |-> <<>>, errors |-> <<>>,
   waits |-> <<>>, result |-> NoValue, error |-> NoValue]

\* new ReplayReporter(): no work is pending, no api key and no shard id are
\* set, onEnd has not been called
NoReporter ==
  [pendingWork |-> <<>>, posts |-> <<>>, apiKey |-> FALSE,
   testRunShardId |-> FALSE, begun |-> FALSE, ended |-> 0,
   onEnd |-> "idle", awaited |-> 0]

\* cypressOnWrapper: the events that take one handler, and of the others those
\* the model registers handlers for
SingleHandlerEvents == {"after:screenshot", "file:preprocessor", "dev-server:start"}
MultiHandlerEvents == {"before:browser:launch", "after:spec"}

\* cypressOnWrapper(base): no handler is registered, no single-handler event
\* is taken, base has not been called, no event is being dispatched
NoWrapper ==
  [handlers |-> [e \in MultiHandlerEvents |-> <<>>],
   singleHandlerEvents |-> [e \in SingleHandlerEvents |-> FALSE],
   base |-> <<>>, calls |-> 0, threw |-> FALSE,
   e |-> "none", pc |-> "idle", ran |-> <<>>, settled |-> 0,
   iterated |-> <<>>, launchOptions |-> 0]

\* no top-level call is running; n counts the calls made so far and cleaned
\* holds the ids of the recordings whose files the call has removed
NoCall ==
  [op |-> "none", pc |-> "idle", result |-> 0, success |-> FALSE, all |-> FALSE,
   includeCrashes |-> FALSE, includeHidden |-> FALSE, filter |-> NoFilter,
   batchSize |-> 0, concurrency |-> 0, cleaned |-> {}, n |-> 0,
   opened |-> NoValue]

Init ==
  /\ recordings = <<>>
  /\ nread = 0
  /\ prevStatus = "none"
  /\ lastLine = Line("none", Undefined, Undefined, NoValue)
  /\ log = <<>>
  /\ disk = {}
  /\ tasks = <<>>
  /\ call = NoCall
  /\ removed = {}
  /\ retrying = NoRetry
  /\ reporter = NoReporter
  /\ wrapper = NoWrapper

StatusOf(recs, id) ==
  IF Find(recs, id) = 0 THEN "none" ELSE recs[Find(recs, id)].status

\* the id of the recording a line is about
TargetId(line) ==
  IF line.kind \in {"sourcemapAdded", "originalSourceAdded"}
  THEN line.recordingId ELSE line.id

\* the loop body of readRecordings applied to the next line of the log
ReadLine(line) ==
  /\ nread < MaxLines
  /\ call.pc = "idle"
  /\ IF Raises(line)
     THEN /\ recordings' = recordings
          /\ call' = [call EXCEPT !.op = "readRecordings", !.pc = "rejected"]
     ELSE /\ recordings' = ApplyLine(recordings, line)
          /\ call' = call
  /\ nread' = nread + 1
  /\ prevStatus' = StatusOf(recordings, TargetId(line))
  /\ lastLine' = line
  /\ UNCHANGED <<fileVars, tasks, removed, retrying, reporter, wrapper>>

Next == \E line \in Lines : ReadLine(line)

vars ==
  <<recordings, nread, prevStatus, lastLine, log, disk, tasks, call, removed,
    retrying, reporter, wrapper>>

Spec == Init /\ [][Next]_vars

----------------------------------------------------------------------------
(* Claims about the fold *)

\* C1: once the fold has put a recording in status unusable or crashUploaded,
\* no later line changes its status; once it is crashed, the only later line
\* that changes its status is a crashUploaded line, which makes it crashUploaded.
C1_AbsorbingStatuses ==
  [][\A i \in 1..Len(recordings) :
       /\ recordings[i].status \in {"unusable", "crashUploaded"}
            => recordings'[i].status = recordings[i].status
       /\ recordings[i].status = "crashed"
            => \/ recordings'[i].status = "crashed"
               \/ /\ recordings'[i].status = "crashUploaded"
                  /\ lastLine'.kind = "crashUploaded"
                  /\ lastLine'.id = recordings[i].id]_vars

\* a status-changing line was applied to a crashed recording and it stayed crashed
C1_Witness ==
  /\ prevStatus = "crashed"
  /\ lastLine.kind \in {"writeStarted", "uploadFinished", "recordingUnusable"}
  /\ StatusOf(recordings, lastLine.id) = "crashed"

Rank(status) ==
  CASE status = "unknown" -> 0
    [] status = "startedWrite" -> 1
    [] status = "onDisk" -> 2
    [] status = "startedUpload" -> 3
    [] status = "uploaded" -> 4
    [] OTHER -> 5

Chain == {"unknown", "startedWrite", "onDisk", "startedUpload", "uploaded"}

\* C2: while the log is folded, the status of a recording never moves back along
\* unknown < startedWrite < onDisk < startedUpload < uploaded.
C2_ChainNonDecreasing ==
  [][\A i \in 1..Len(recordings) :
       (recordings[i].status \in Chain /\ recordings'[i].status \in Chain)
         => Rank(recordings[i].status) <= Rank(recordings'[i].status)]_vars

----------------------------------------------------------------------------
(* Listing, eligibility and asset files *)

Range(f) == {f[i] : i \in DOMAIN f}

\* uploadSkipReason without the check of the path
uploadSkipReason_noPathCheck(recording) ==
  IF recording.status \notin {"onDisk", "startedWrite", "startedUpload", "crashed"}
  THEN "wrong recording status"
  ELSE "none"

\* uploadSkipReason that does not take up an upload that was started
uploadSkipReason_noResume(recording) ==
  IF recording.status \notin {"onDisk", "startedWrite", "crashed"}
  THEN "wrong recording status"
  ELSE IF recording.path = NoValue /\ recording.status # "crashed"
       THEN "recording not saved to disk"
       ELSE "none"

\* the reason for which upload skips a recording, "none" when there is none
uploadSkipReason(recording) ==
  IF recording.status \notin {"onDisk", "startedWrite", "startedUpload", "crashed"}
  THEN "wrong recording status"
  ELSE IF recording.path = NoValue /\ recording.status # "crashed"
       THEN "recording not saved to disk"
       ELSE "none"

\* filter(r)
ApplyFilter(filter, r) ==
  CASE filter.name = "onDisk" -> r.status = "onDisk"
    [] filter.name = "local" ->
         r.status # "uploaded" /\ r.status # "crashUploaded" /\ r.id # filter.id
    [] OTHER -> TRUE

filterRecordings(recs, filter, includeCrashes) ==
  LET Kept(r) == ApplyFilter(filter, r)
      Dropped(r) == r.status = "crashed" /\ ~ApplyFilter(filter, r)
      filtered == IF filter.name # "none" THEN SelectSeq(recs, Kept) ELSE recs
  IN IF includeCrashes THEN filtered \o SelectSeq(recs, Dropped) ELSE filtered

\* listRecording: the recording without buildId and crashData
listRecording(recording) ==
  [f \in DOMAIN recording \ {"buildId", "crashData"} |-> recording[f]]

listAllRecordings(lines, all, filter, includeCrashes) ==
  LET recs == readRecordings(lines, FALSE)
      Uploadable(r) == r.status \in {"onDisk", "startedWrite", "crashed"}
      listed == IF all
                THEN filterRecordings(recs, filter, includeCrashes)
                ELSE filterRecordings(SelectSeq(recs, Uploadable), filter,
                                      includeCrashes)
  IN [i \in DOMAIN listed |-> listRecording(listed[i])]

\* sm.path.replace(/\.map$/, ".lookup")
LookupFile(path) ==
  IF path[1] = "sourcemap.map" THEN <<"sourcemap.lookup", path[2]>> ELSE path

getRecordingAssetFiles(recording) ==
  (IF recording.path # NoValue THEN {recording.path} ELSE {})
  \cup {sm.path : sm \in Range(recording.sourcemaps)}
  \cup {LookupFile(sm.path) : sm \in Range(recording.sourcemaps)}
  \cup UNION {Range(sm.originalSources) : sm \in Range(recording.sourcemaps)}

\* the files removeRecordingAssets(recording, opts) unlinks, given the log and the
\* files on disk; opts carries the caller's `all` and `includeCrashes`
AssetsToRemove(recording, lines, files, opts) ==
  LET localRecordings ==
        listAllRecordings(lines, opts.all, LocalFilter(recording.id),
                          opts.includeCrashes)
      localRecordingAssetFiles ==
        UNION {getRecordingAssetFiles(r) : r \in Range(localRecordings)}
  IN (getRecordingAssetFiles(recording) \ localRecordingAssetFiles) \cap files

removeRecordingAssets(recording, lines, files, opts) ==
  files \ AssetsToRemove(recording, lines, files, opts)

\* the options of a call that gives only the directory
DirOpts == [all |-> FALSE, includeCrashes |-> FALSE]

\* The log file is held as readRecordingFile returns it: its text split at the
\* line terminators, so that a file that ends with a terminator ends with an
\* empty line; a file that does not exist is the empty sequence.
EmptyLine == Line("empty", Undefined, Undefined, NoValue)

\* lines.join("\n") as readRecordingFile would split it: no line at all joins
\* to the empty text, which splits to one empty line
Joined(lines) == IF lines = <<>> THEN <<EmptyLine>> ELSE lines

\* writeRecordingFile: the lines joined by terminators, plus a trailing one
writeRecordingFile(lines) == Append(Joined(lines), EmptyLine)

\* addRecordingEvent writing the event without the lines it has read
addRecordingEvent_overwriting(lines, kind, id, recordingId, arg) ==
  writeRecordingFile(<<Line(kind, id, recordingId, arg)>>)

\* addRecordingEvent: the lines are read, the event is pushed and all are written
addRecordingEvent(lines, kind, id, recordingId, arg) ==
  writeRecordingFile(Append(lines, Line(kind, id, recordingId, arg)))

----------------------------------------------------------------------------
(* doUploadRecording, one entry of `tasks` per call *)

\* the attempts exponentialBackoffRetry makes by default
MaxAttempts == 5

Settled == {"returned", "threw"}

\* a call of doUploadRecording that pMap has not made yet
PendingTask(recording, removeAssets) ==
  [rec |-> recording, removeAssets |-> removeAssets, pc |-> "pending",
   result |-> Null, remoteId |-> Undefined, attempt |-> 0, conn |-> "none",
   started |-> 0, calls |-> {}, nReport |-> 0, reported |-> 0,
   appended |-> <<>>, error |-> "none",
   completed |-> {}, maps |-> <<>>, cleanup |-> "none"]

\* doUploadRecording catching the error of an awaited validation of the metadata
\* as it catches that of setRecordingMetadata
ThrowAt_caught(task) ==
  IF task.pc = "buildRecordingMetadata"
  THEN [task EXCEPT !.pc = "beginRecordingUpload", !.error = task.pc,
                    !.calls = @ \cup {"beginRecordingUpload"}]
  ELSE [task EXCEPT !.pc = "threw", !.error = task.pc]

\* an awaited operation rejects and nothing catches it: doUploadRecording
\* rejects, error being the operation that failed
ThrowAt(task) == [task EXCEPT !.pc = "threw", !.error = task.pc]

\* doUploadRecording without the short-circuit for an uploaded recording
StartTask_noShortCircuit(task) ==
  LET recording == task.rec
      t1 == [task EXCEPT !.started = @ + 1]
  IN
  IF uploadSkipReason(recording) # "none"
  THEN [t1 EXCEPT !.pc = "returned", !.result = Null]
  ELSE IF recording.status = "crashed"
  THEN [t1 EXCEPT !.pc = "crashConnect", !.calls = @ \cup {"initConnection"}]
  ELSE [t1 EXCEPT !.pc = "stat"]

\* doUploadRecording up to its first await: the short-circuit for an uploaded
\* recording, the skip, and the branch on crashed
StartTask(task) ==
  LET recording == task.rec
      t1 == [task EXCEPT !.started = @ + 1]
  IN
  IF recording.status = "uploaded" /\ recording.recordingId # Undefined
  THEN [t1 EXCEPT !.pc = "returned", !.result = recording.recordingId]
  ELSE IF uploadSkipReason(recording) # "none"
  THEN [t1 EXCEPT !.pc = "returned", !.result = Null]
  ELSE IF recording.status = "crashed"
  THEN [t1 EXCEPT !.pc = "crashConnect", !.calls = @ \cup {"initConnection"}]
  ELSE [t1 EXCEPT !.pc = "stat"]

\* doUploadCrash reporting the crash data alone
crashDataToReport_noMarker(recording) == recording.crashData

\* doUploadCrash: the entries given to reportCrash, the crash data of the
\* recording followed by a recordingMetadata marker
crashDataToReport(recording) ==
  Append(recording.crashData, <<"recordingMetadata", recording.id>>)

\* the status the log gives recording id: what the log shows of the recording
\* at the time removeRecordingAssets is called for it (`cleanup` of the task)
StatusInLog(lines, id) == StatusOf(FoldLines(<<>>, lines), id)

\* the crash branch of doUploadRecording going on to the upload of the data
AfterUploadCrash_fallsThrough(task, lines, files) ==
  [task |-> [task EXCEPT !.pc = "stat"], log |-> lines, disk |-> files]

\* the end of the crash branch of doUploadRecording, after doUploadCrash
AfterUploadCrash(task, lines, files) ==
  [task |-> [task EXCEPT !.pc = "returned", !.result = task.rec.id,
                         !.cleanup = IF task.removeAssets
                                     THEN StatusInLog(lines, task.rec.id)
                                     ELSE @],
   log |-> lines,
   disk |-> IF task.removeAssets
            THEN removeRecordingAssets(task.rec, lines, files, DirOpts)
            ELSE files]

\* the options doUploadRecording gives to its two calls of pMap
SourcemapConcurrency == 10
OriginalSourceConcurrency == 5

\* a source map of the recording, by what the pMap over the source maps has
\* done of it: `started` of its original sources have been given to the mapper
\* of the inner pMap and `done` of these have settled; `failed` when the mapper
\* of the source map has caught an error
PendingMap == [pc |-> "pending", started |-> 0, done |-> 0, failed |-> FALSE]

InFlightMaps(ms) ==
  {i \in DOMAIN ms : ms[i].pc \in {"uploadSourcemap", "originalSources"}}

\* the uploads of original sources of source map m that are awaited
InFlightOriginals(m) == m.started - m.done

\* the inner pMap calling its mapper on every original source at once
RECURSIVE StartOriginals_unbounded(_, _, _)
StartOriginals_unbounded(m, sourcemap, files) ==
  IF m.started = Len(sourcemap.originalSources)
  THEN m
  ELSE IF sourcemap.originalSources[m.started + 1] \in files
  THEN StartOriginals_unbounded([m EXCEPT !.started = @ + 1], sourcemap, files)
  ELSE StartOriginals_unbounded([m EXCEPT !.started = @ + 1, !.done = @ + 1,
                                          !.failed = TRUE], sourcemap, files)

\* next() of the pMap over sourcemap.originalSources (concurrency 5, stopOnError
\* false): the mapper is called on the original sources in order for as long as
\* fewer than 5 uploads are awaited; it reads the file, which throws at once
\* when the file is missing, and calls connectionUploadOriginalSource
RECURSIVE StartOriginals(_, _, _)
StartOriginals(m, sourcemap, files) ==
  IF \/ m.started = Len(sourcemap.originalSources)
     \/ InFlightOriginals(m) >= OriginalSourceConcurrency
  THEN m
  ELSE IF sourcemap.originalSources[m.started + 1] \in files
  THEN StartOriginals([m EXCEPT !.started = @ + 1], sourcemap, files)
  ELSE StartOriginals([m EXCEPT !.started = @ + 1, !.done = @ + 1,
                                !.failed = TRUE], sourcemap, files)

\* the inner pMap has settled when every original source has: its rejection
\* (an AggregateError when an original source failed) is caught by the mapper
\* of the source map
AfterOriginals(m, sourcemap) ==
  IF m.done = Len(sourcemap.originalSources)
  THEN [m EXCEPT !.pc = "settled"]
  ELSE [m EXCEPT !.pc = "originalSources"]

\* the pMap over the source maps giving up at the first source map that fails
RECURSIVE StartMaps_stopOnError(_, _, _)
StartMaps_stopOnError(ms, sourcemaps, files) ==
  LET pending == {i \in DOMAIN ms : ms[i].pc = "pending"}
  IN IF \/ pending = {}
        \/ Cardinality(InFlightMaps(ms)) >= SourcemapConcurrency
        \/ \E i \in DOMAIN ms : ms[i].failed
     THEN ms
     ELSE LET i == CHOOSE x \in pending : \A y \in pending : x <= y
          IN IF sourcemaps[i].path \in files
             THEN StartMaps_stopOnError([ms EXCEPT ![i].pc = "uploadSourcemap"],
                                        sourcemaps, files)
             ELSE StartMaps_stopOnError([ms EXCEPT ![i].pc = "settled",
                                                   ![i].failed = TRUE],
                                        sourcemaps, files)

\* next() of the pMap over recording.sourcemaps (concurrency 10, stopOnError
\* false): the mapper is called on the source maps in order for as long as
\* fewer than 10 of its calls are unsettled; it reads the file of the source
\* map, its catch settling the call when the file is missing, and calls
\* connectionUploadSourcemap
RECURSIVE StartMaps(_, _, _)
StartMaps(ms, sourcemaps, files) ==
  LET pending == {i \in DOMAIN ms : ms[i].pc = "pending"}
  IN IF pending = {} \/ Cardinality(InFlightMaps(ms)) >= SourcemapConcurrency
     THEN ms
     ELSE LET i == CHOOSE x \in pending : \A y \in pending : x <= y
          IN IF sourcemaps[i].path \in files
             THEN StartMaps([ms EXCEPT ![i].pc = "uploadSourcemap"],
                            sourcemaps, files)
             ELSE StartMaps([ms EXCEPT ![i].pc = "settled", ![i].failed = TRUE],
                            sourcemaps, files)

\* the mapper of source map i goes on: connectionUploadSourcemap has settled, or
\* one of the uploads of its original sources has, with outcome `ok`
SourcemapStep(task, i, files, ok) ==
  LET sourcemap == task.rec.sourcemaps[i]
      m == task.maps[i]
      m1 == IF m.pc = "uploadSourcemap"
            THEN IF ok
                 THEN AfterOriginals(StartOriginals(m, sourcemap, files), sourcemap)
                 ELSE [m EXCEPT !.pc = "settled", !.failed = TRUE]
            ELSE LET m2 == [m EXCEPT !.done = @ + 1, !.failed = @ \/ ~ok]
                 IN AfterOriginals(StartOriginals(m2, sourcemap, files), sourcemap)
      ms1 == [task.maps EXCEPT ![i] = m1]
  IN [task EXCEPT
        !.maps = IF m1.pc = "settled"
                 THEN StartMaps(ms1, task.rec.sourcemaps, files)
                 ELSE ms1,
        !.calls = IF m1.started > 0 THEN @ \cup {"uploadOriginalSource"} ELSE @]

\* the pMap over the source maps resolving before every source map has settled
Awaited_firstSettled(task) ==
  task.pc = "sourcemaps" => \E i \in DOMAIN task.maps : task.maps[i].pc = "settled"

\* the operation the task awaits can settle: `await pMap(recording.sourcemaps,
\* ...)` goes on when the mapper has settled for every source map
Awaited(task) ==
  task.pc = "sourcemaps" => \A i \in DOMAIN task.maps : task.maps[i].pc = "settled"

\* One step of a call of doUploadRecording, from one await to the next: the
\* task, log and disk after the awaited operation has ended with outcome `ok`.
\* `rid` is the remote id the service answers to beginRecordingUpload.
TaskStep(task, lines, files, ok, rid) ==
  LET keep == [task |-> task, log |-> lines, disk |-> files]
      threw == [keep EXCEPT !.task = ThrowAt(task)]
      recording == task.rec
  IN
  CASE task.pc = "crashConnect" ->
         \* doUploadCrash: initConnection has answered
         IF ~ok
         THEN AfterUploadCrash(task, lines, files)
         ELSE [keep EXCEPT !.task.pc = "reportCrash",
                           !.task.conn = "open",
                           !.task.calls = @ \cup {"reportCrash"},
                           !.task.nReport = Len(crashDataToReport(recording))]
    [] task.pc = "reportCrash" ->
         \* doUploadCrash: Promise.all of the reportCrash calls has settled
         IF ~ok
         THEN threw
         ELSE LET lines1 == addRecordingEvent(lines, "crashUploaded",
                                              recording.id, Undefined, Server)
                  t1 == [task EXCEPT !.conn = "closed",
                                     !.reported = task.nReport,
                                     !.appended = Append(@, "crashUploaded")]
              IN AfterUploadCrash(t1, lines1, files)
    [] task.pc = "stat" ->
         \* fs.promises.stat(recording.path) has settled
         IF recording.path \in files
         THEN [keep EXCEPT !.task.pc = "initConnection",
                           !.task.calls = @ \cup {"initConnection"}]
         ELSE threw
    [] task.pc = "initConnection" ->
         IF ok
         THEN [keep EXCEPT !.task.pc = "buildRecordingMetadata",
                           !.task.conn = "open",
                           !.task.calls = @ \cup {"buildRecordingMetadata"}]
         ELSE [keep EXCEPT !.task.pc = "returned", !.task.result = Null]
    [] task.pc = "buildRecordingMetadata" ->
         IF ok
         THEN [keep EXCEPT !.task.pc = "beginRecordingUpload",
                           !.task.calls = @ \cup {"beginRecordingUpload"}]
         ELSE threw
    [] task.pc = "beginRecordingUpload" ->
         IF ok
         THEN [keep EXCEPT !.task.pc = "setRecordingMetadata",
                           !.task.remoteId = rid,
                           !.task.calls = @ \cup {"setRecordingMetadata"}]
         ELSE threw
    [] task.pc = "setRecordingMetadata" ->
         \* a failure is caught; uploadStarted is appended and the transfer begins
         [keep EXCEPT !.task.pc = "uploadRecording",
                      !.task.attempt = 1,
                      !.task.calls = @ \cup {"uploadRecording"},
                      !.task.appended = Append(@, "uploadStarted"),
                      !.log = addRecordingEvent(lines, "uploadStarted",
                                recording.id, task.remoteId, Server)]
    [] task.pc = "uploadRecording" ->
         \* exponentialBackoffRetry: an attempt of the byte transfer has settled
         IF ok
         THEN [keep EXCEPT !.task.pc = "endRecordingUpload",
                           !.task.attempt = 0,
                           !.task.completed = @ \cup {"uploadRecording"},
                           !.task.calls = @ \cup {"endRecordingUpload"}]
         ELSE IF task.attempt = MaxAttempts
              THEN threw
              ELSE [keep EXCEPT !.task.attempt = @ + 1]
    [] task.pc = "endRecordingUpload" ->
         IF ok
         THEN \* pMap calls the mapper on the first source maps
              LET maps == StartMaps([i \in DOMAIN recording.sourcemaps |-> PendingMap],
                                    recording.sourcemaps, files)
              IN [keep EXCEPT !.task.pc = "sourcemaps",
                              !.task.completed = @ \cup {"endRecordingUpload"},
                              !.task.maps = maps,
                              !.task.calls =
                                 IF InFlightMaps(maps) # {}
                                 THEN @ \cup {"uploadSourcemap"} ELSE @]
         ELSE threw
    [] task.pc = "sourcemaps" ->
         \* pMap over the source maps has resolved (each failure is caught):
         \* the assets are removed, then uploadFinished is appended
         LET files1 == IF task.removeAssets
                       THEN removeRecordingAssets(recording, lines, files, DirOpts)
                       ELSE files
         IN [task |-> [task EXCEPT !.pc = "returned",
                                   !.result = task.remoteId,
                                   !.conn = "closed",
                                   !.cleanup = IF task.removeAssets
                                               THEN StatusInLog(lines, recording.id)
                                               ELSE @,
                                   !.appended = Append(@, "uploadFinished")],
             log |-> addRecordingEvent(lines, "uploadFinished", recording.id,
                                       Undefined, NoValue),
             disk |-> files1]
    [] OTHER -> keep

----------------------------------------------------------------------------
(* pMap and the top-level calls *)

\* number of top-level calls in a behaviour
MaxCalls == 2

DefaultBatchSize == 20
MaxBatchSize == 25

Min(a, b) == IF a < b THEN a ELSE b

InFlight(ts) == {t \in DOMAIN ts : ts[t].pc \notin Settled \cup {"pending"}}
Pending(ts) == {t \in DOMAIN ts : ts[t].pc = "pending"}

\* pMap calling the mapper on every item at once
pMapNext_unbounded(ts, concurrency) ==
  [t \in DOMAIN ts |-> IF ts[t].pc = "pending" THEN StartTask(ts[t]) ELSE ts[t]]

\* pMap's next(): the mapper is called on the items in order for as long as
\* fewer than `concurrency` of its calls are unsettled
RECURSIVE pMapNext(_, _)
pMapNext(ts, concurrency) ==
  IF Pending(ts) = {} \/ Cardinality(InFlight(ts)) >= concurrency
  THEN ts
  ELSE LET t == CHOOSE x \in Pending(ts) : \A y \in Pending(ts) : x <= y
       IN pMapNext([ts EXCEPT ![t] = StartTask(@)], concurrency)

stopOnError_true == TRUE

\* the option stopOnError that uploadAllRecordings gives to pMap
stopOnError == FALSE

\* the loop that ends uploadAllRecordings: recordingIds.forEach(...), returning
\* the files left and the ids of the recordings whose assets were cleaned
RECURSIVE CleanupUploaded(_, _, _, _, _)
CleanupUploaded(ts, i, lines, files, cleaned) ==
  IF i > Len(ts) THEN [disk |-> files, cleaned |-> cleaned]
  ELSE LET selected == [k \in DOMAIN ts |-> ts[k].rec]
           j == Find(selected, ts[i].result)
       IN IF j = 0
          THEN CleanupUploaded(ts, i + 1, lines, files, cleaned)
          ELSE CleanupUploaded(ts, i + 1, lines,
                 removeRecordingAssets(selected[j], lines, files, call),
                 cleaned \cup {selected[j].id})

\* doViewRecording after its await of doUploadRecording: false when the upload
\* returned no id, true and nothing opened for a crash, else the URL of the id
\* returned is opened; the call rejects when doUploadRecording does
AfterViewUpload(c, task) ==
  IF task.pc = "threw" THEN [c EXCEPT !.pc = "rejected"]
  ELSE IF task.pc # "returned" THEN c
  ELSE IF task.result = Null
  THEN [c EXCEPT !.pc = "returned", !.success = FALSE]
  ELSE IF task.rec.status = "crashed"
  THEN [c EXCEPT !.pc = "returned", !.success = TRUE]
  ELSE [c EXCEPT !.pc = "returned", !.success = TRUE,
                 !.opened = <<task.result, Server>>]

\* what follows the step of task t that left the task, log and disk of r:
\* the caller of doUploadRecording goes on when its await is over
Continue(t, r) ==
  LET ts1 == [tasks EXCEPT ![t] = r.task]
      settled == r.task.pc \in Settled
  IN
  /\ log' = r.log
  /\ IF call.op = "viewRecording"
     THEN /\ tasks' = ts1
          /\ disk' = r.disk
          /\ call' = AfterViewUpload(call, r.task)
     ELSE IF call.op = "uploadRecording"
     THEN /\ tasks' = ts1
          /\ disk' = r.disk
          /\ call' = IF r.task.pc = "returned"
                     THEN [call EXCEPT !.pc = "returned", !.result = r.task.result]
                     ELSE IF r.task.pc = "threw"
                          THEN [call EXCEPT !.pc = "rejected"]
                          ELSE call
     ELSE IF ~settled
     THEN /\ tasks' = ts1
          /\ disk' = r.disk
          /\ call' = call
     ELSE IF stopOnError /\ r.task.pc = "threw"
     THEN /\ tasks' = ts1
          /\ disk' = r.disk
          /\ call' = [call EXCEPT !.pc = "rejected"]
     ELSE LET ts2 == pMapNext(ts1, call.concurrency)
              done == \A k \in DOMAIN ts2 : ts2[k].pc \in Settled
              end == CleanupUploaded(ts2, 1, r.log, r.disk, {})
          IN /\ tasks' = ts2
             /\ IF ~done
                THEN disk' = r.disk /\ call' = call
                ELSE IF \E k \in DOMAIN ts2 : ts2[k].pc = "threw"
                THEN /\ disk' = r.disk
                     /\ call' = [call EXCEPT !.pc = "rejected"]
                ELSE /\ disk' = end.disk
                     /\ call' = [call EXCEPT
                                   !.pc = "returned",
                                   !.cleaned = end.cleaned,
                                   !.success =
                                     \A k \in DOMAIN ts2 : ts2[k].result # Null]
  /\ removed' = disk \ disk'

\* a step of a running call of doUploadRecording
Step(t, ok, rid) ==
  /\ call.pc = "running"
  /\ t \in InFlight(tasks)
  /\ Awaited(tasks[t])
  /\ Continue(t, TaskStep(tasks[t], log, disk, ok, rid))
  /\ UNCHANGED <<foldVars, retrying, reporter, wrapper>>

\* a step of the mapper of source map i in a running call of doUploadRecording
MapStep(t, i, ok) ==
  /\ call.pc = "running"
  /\ t \in InFlight(tasks)
  /\ tasks[t].pc = "sourcemaps"
  /\ i \in InFlightMaps(tasks[t].maps)
  /\ tasks' = [tasks EXCEPT ![t] = SourcemapStep(@, i, disk, ok)]
  /\ UNCHANGED <<foldVars, fileVars, call, removed, retrying, reporter, wrapper>>

\* uploadRecording(id, opts)
UploadRecording(id) ==
  /\ call.pc # "running"
  /\ call.n < MaxCalls
  /\ LET recs == readRecordings(log, FALSE)
         i == Find(recs, id)
         started == [call EXCEPT !.op = "uploadRecording", !.pc = "running",
                                 !.n = @ + 1, !.result = Null, !.success = FALSE,
                                 !.cleaned = {},
                                 !.all = FALSE, !.includeCrashes = FALSE,
                                 !.filter = NoFilter, !.batchSize = 0,
                                 !.concurrency = 0]
     IN IF i = 0
        THEN /\ tasks' = <<>>
             /\ call' = [started EXCEPT !.pc = "returned"]
        ELSE LET task == StartTask(PendingTask(recs[i], TRUE))
             IN /\ tasks' = <<task>>
                /\ call' = IF task.pc = "returned"
                           THEN [started EXCEPT !.pc = "returned",
                                                !.result = task.result]
                           ELSE started
  /\ removed' = {}
  /\ UNCHANGED <<foldVars, fileVars, retrying, reporter, wrapper>>

\* viewRecording(id, opts): doViewRecording on the recording of the log whose
\* id is id; `opened` is the remote id and server of the URL given to the
\* platform's opener
ViewRecording(id) ==
  /\ call.pc # "running"
  /\ call.n < MaxCalls
  /\ LET recs == readRecordings(log, FALSE)
         i == Find(recs, id)
         started == [call EXCEPT !.op = "viewRecording", !.pc = "running",
                                 !.n = @ + 1, !.result = id, !.success = FALSE,
                                 !.cleaned = {}, !.opened = NoValue,
                                 !.all = FALSE, !.includeCrashes = FALSE,
                                 !.filter = NoFilter, !.batchSize = 0,
                                 !.concurrency = 0]
     IN IF i = 0
        THEN /\ tasks' = <<>>
             /\ call' = [started EXCEPT !.pc = "returned"]
        ELSE IF recs[i].status = "crashUploaded"
        THEN /\ tasks' = <<>>
             /\ call' = [started EXCEPT !.pc = "returned", !.success = TRUE]
        ELSE IF recs[i].status = "uploaded"
        THEN /\ tasks' = <<>>
             /\ call' = [started EXCEPT !.pc = "returned", !.success = TRUE,
                                        !.opened = <<recs[i].recordingId,
                                                     recs[i].server>>]
        ELSE LET task == StartTask(PendingTask(recs[i], TRUE))
             IN /\ tasks' = <<task>>
                /\ call' = AfterViewUpload(started, task)
  /\ removed' = {}
  /\ UNCHANGED <<foldVars, fileVars, retrying, reporter, wrapper>>

\* uploadAllRecordings(opts)
UploadAllRecordings(batchSize, filter, includeCrashes) ==
  /\ call.pc # "running"
  /\ call.n < MaxCalls
  /\ LET Eligible(r) == uploadSkipReason(r) = "none"
         allRecordings == SelectSeq(readRecordings(log, FALSE), Eligible)
         recs == filterRecordings(allRecordings, filter, includeCrashes)
         concurrency ==
           Min(IF batchSize = 0 THEN DefaultBatchSize ELSE batchSize, MaxBatchSize)
         started == [call EXCEPT !.op = "uploadAllRecordings", !.pc = "running",
                                 !.n = @ + 1, !.result = Null, !.success = FALSE,
                                 !.cleaned = {},
                                 !.all = FALSE, !.includeCrashes = includeCrashes,
                                 !.filter = filter, !.batchSize = batchSize,
                                 !.concurrency = concurrency]
     IN IF recs = <<>>
        THEN /\ tasks' = <<>>
             /\ call' = [started EXCEPT !.pc = "returned", !.success = TRUE]
        ELSE /\ tasks' = pMapNext([i \in DOMAIN recs |-> PendingTask(recs[i], FALSE)],
                                  concurrency)
             /\ call' = started
  /\ removed' = {}
  /\ UNCHANGED <<foldVars, fileVars, retrying, reporter, wrapper>>

----------------------------------------------------------------------------
(* The logs the driver leaves *)

Create(id) == Line("createRecording", id, Undefined, ChromiumBuildId)
WriteStarted(id) == Line("writeStarted", id, Undefined, DataFile(id))
WriteFinished(id) == Line("writeFinished", id, Undefined, NoValue)
UploadStarted(id) == Line("uploadStarted", id, 100 + id, Server)
UploadFinished(id) == Line("uploadFinished", id, Undefined, NoValue)
Crashed(id) == Line("crashed", id, Undefined, NoValue)
CrashData(id) == Line("crashData", id, Undefined, <<"data">>)
SourcemapAdded(id, k) == Line("sourcemapAdded", k, id, MapFile(k))
OriginalSourceAdded(id, k) == Line("originalSourceAdded", k, id, OriginalFile(k))

\* the lines of one recording, by the name of the life it had
Life(id, life) ==
  CASE life = "absent" -> <<>>
    [] life = "unknown" -> <<Create(id)>>
    [] life = "startedWrite" -> <<Create(id), WriteStarted(id)>>
    [] life = "onDisk" -> <<Create(id), WriteStarted(id), WriteFinished(id)>>
    [] life = "noPath" -> <<Create(id), WriteFinished(id)>>
    [] life = "startedUpload" ->
         <<Create(id), WriteStarted(id), WriteFinished(id), UploadStarted(id)>>
    [] life = "uploaded" ->
         <<Create(id), WriteStarted(id), WriteFinished(id), UploadStarted(id),
           UploadFinished(id)>>
    [] life = "uploadedNoId" ->
         <<Create(id), WriteStarted(id), WriteFinished(id), UploadFinished(id)>>
    [] life = "unusable" ->
         <<Create(id), Line("recordingUnusable", id, Undefined, NoContent)>>
    [] life = "crashed" -> <<Create(id), Crashed(id)>>
    [] life = "crashedWritten" ->
         <<Create(id), WriteStarted(id), CrashData(id), Crashed(id)>>
    [] life = "crashed2" -> <<Create(id), CrashData(id), CrashData(id), Crashed(id)>>
    [] life = "crashUploaded" ->
         <<Create(id), Crashed(id),
           Line("crashUploaded", id, Undefined, Server)>>
    [] life = "hidden" ->
         <<Create(id), Line("recordingUnusable", id, Undefined, Hidden)>>
    [] life = "described" ->
         <<Create(id), Line("addMetadata", id, Undefined, UriMetadata),
           WriteStarted(id), WriteFinished(id)>>
    [] life = "titled" ->
         <<Create(id), Line("addMetadata", id, Undefined, TitleMetadata),
           Line("addMetadata", id, Undefined, UriMetadata), WriteStarted(id)>>

Lives ==
  {"absent", "unknown", "startedWrite", "onDisk", "noPath", "startedUpload",
   "uploaded", "uploadedNoId", "unusable", "crashed", "crashedWritten",
   "crashed2", "crashUploaded"}

\* the source map k, shared by the recordings that have one
SharedMapId == CHOOSE k \in SourcemapIds : \A j \in SourcemapIds : k <= j

Maps(id, withMap) ==
  IF withMap
  THEN <<SourcemapAdded(id, SharedMapId), OriginalSourceAdded(id, SharedMapId)>>
  ELSE <<>>

\* the log of the recordings 1..n, lives[i] and withMap[i] being those of i
RECURSIVE DriverLines(_, _, _)
DriverLines(n, lives, withMap) ==
  IF n = 0 THEN <<>>
  ELSE DriverLines(n - 1, lives, withMap)
       \o (IF lives[n] = "absent" THEN <<>>
           ELSE Life(n, lives[n]) \o Maps(n, withMap[n]))

\* the file as the driver leaves it: every line ends with a terminator
DriverLog(lives, withMap) ==
  LET lines == DriverLines(MaxRecordings, lives, withMap)
  IN IF lines = <<>> THEN <<>> ELSE Append(lines, EmptyLine)

\* every file a log names
FilesOf(lines) ==
  UNION {getRecordingAssetFiles(r) : r \in Range(readRecordings(lines, TRUE))}

----------------------------------------------------------------------------
(* UploadSpec: calls of uploadRecording on a log the driver left *)

\* no log is being folded and retry has not been called
InitFold ==
  /\ recordings = <<>>
  /\ nread = 0
  /\ prevStatus = "none"
  /\ lastLine = Line("none", Undefined, Undefined, NoValue)
  /\ retrying = NoRetry
  /\ reporter = NoReporter
  /\ wrapper = NoWrapper

\* the lives of the recordings other than the first
OtherLives == {"absent", "onDisk", "startedUpload"}

InitUpload ==
  /\ InitFold
  /\ \E lives \in [RecordingIds -> Lives], withMap \in [RecordingIds -> BOOLEAN] :
       /\ \A id \in RecordingIds \ {1} :
            lives[id] \in OtherLives /\ withMap[id] = (lives[id] # "absent")
       /\ lives[1] = "absent" => ~withMap[1]
       /\ log = DriverLog(lives, withMap)
       /\ \E missing \in SUBSET {DataFile(1)} :
            disk = FilesOf(log) \ missing
  /\ tasks = <<>>
  /\ call = NoCall
  /\ removed = {}

\* the service gives the upload an id of its own, as it gave the uploads the
\* log records (the case of an id equal to the local one is in BatchSpec)
NextUpload ==
  \/ \E id \in RecordingIds : UploadRecording(id)
  \/ \E t \in DOMAIN tasks, ok \in BOOLEAN :
       \E rid \in RemoteIds(tasks[t].rec.id) \ {tasks[t].rec.id} : Step(t, ok, rid)
  \/ \E t \in DOMAIN tasks, ok \in BOOLEAN :
       \E i \in DOMAIN tasks[t].maps : MapStep(t, i, ok)

UploadSpec == InitUpload /\ [][NextUpload]_vars

\* ViewSpec: calls of viewRecording on a log the driver left
NextView ==
  \/ \E id \in RecordingIds : ViewRecording(id)
  \/ \E t \in DOMAIN tasks, ok \in BOOLEAN :
       \E rid \in RemoteIds(tasks[t].rec.id) \ {tasks[t].rec.id} : Step(t, ok, rid)
  \/ \E t \in DOMAIN tasks, ok \in BOOLEAN :
       \E i \in DOMAIN tasks[t].maps : MapStep(t, i, ok)

ViewSpec == InitUpload /\ [][NextView]_vars

----------------------------------------------------------------------------
(* BatchSpec: one call of uploadAllRecordings on a log the driver left *)

BatchLives == {"onDisk", "crashed", "uploaded"}
\* opts.batchSize: 0 when it is not given
BatchSizes == {0, 1, 2, 30}

\* opts.filter and opts.includeCrashes
BatchOptions ==
  {[filter |-> NoFilter, includeCrashes |-> FALSE],
   [filter |-> OnDiskFilter, includeCrashes |-> FALSE],
   [filter |-> OnDiskFilter, includeCrashes |-> TRUE]}

InitBatch ==
  /\ InitFold
  /\ \E lives \in [RecordingIds -> BatchLives] :
       /\ log = DriverLog(lives, [id \in RecordingIds |-> FALSE])
       /\ \E missing \in SUBSET {DataFile(1)} :
            disk = FilesOf(log) \ missing
  /\ tasks = <<>>
  /\ call = NoCall
  /\ removed = {}

NextBatch ==
  \/ \E batchSize \in BatchSizes, opts \in BatchOptions :
       /\ call.pc = "idle"
       \* the batch size is left out along with the filter, and the size above
       \* the largest comes with every option
       /\ batchSize = 0 => opts.filter = NoFilter
       /\ batchSize > MaxBatchSize => opts.includeCrashes
       /\ UploadAllRecordings(batchSize, opts.filter, opts.includeCrashes)
  \/ \E t \in DOMAIN tasks, ok \in BOOLEAN :
       \E rid \in RemoteIds(tasks[t].rec.id) : Step(t, ok, rid)

BatchSpec == InitBatch /\ [][NextBatch]_vars

----------------------------------------------------------------------------
(* removeRecording and removeFromDisk *)

\* the lines removeRecording keeps: those that parse and whose id is not id
KeptByRemoveRecording(lines, id) ==
  LET Keep(line) == line.kind \notin {"invalid", "empty"} /\ line.id # id
  IN SelectSeq(lines, Keep)

\* removeRecording(id, opts)
RemoveRecording(id) ==
  /\ call.pc # "running"
  /\ call.n < MaxCalls
  /\ LET recs == readRecordings(log, FALSE)
         i == Find(recs, id)
         ended == [NoCall EXCEPT !.op = "removeRecording", !.pc = "returned",
                                 !.n = call.n + 1, !.result = id]
     IN IF i = 0
        THEN /\ call' = [ended EXCEPT !.success = FALSE]
             /\ UNCHANGED fileVars
        ELSE /\ call' = [ended EXCEPT !.success = TRUE, !.cleaned = {id}]
             /\ disk' = removeRecordingAssets(recs[i], log, disk, DirOpts)
             /\ log' = writeRecordingFile(KeptByRemoveRecording(log, id))
  /\ removed' = disk \ disk'
  /\ tasks' = <<>>
  /\ UNCHANGED <<foldVars, retrying, reporter, wrapper>>

\* getRecordings(): the recordings of the log
getRecordings(lines) == readRecordings(lines, FALSE)

\* readRecordingLog(): the entries of the log, the lines that do not parse skipped
readRecordingLog(lines) ==
  LET Parsed(line) == line.kind \notin {"invalid", "empty"}
  IN SelectSeq(lines, Parsed)

\* the number of entries of the sequence s that are f
RECURSIVE Count(_, _)
Count(s, f) ==
  IF s = <<>> THEN 0
  ELSE (IF Head(s) = f THEN 1 ELSE 0) + Count(Tail(s), f)

\* the source-map paths and original-source paths of a recording, one entry
\* per reference
RECURSIVE AssetReferences(_)
AssetReferences(sourcemaps) ==
  IF sourcemaps = <<>> THEN <<>>
  ELSE <<Head(sourcemaps).path>> \o Head(sourcemaps).originalSources
       \o AssetReferences(Tail(sourcemaps))

\* getAssetsUsageMap(recordings)[file]
RECURSIVE getAssetsUsageMap(_, _)
getAssetsUsageMap(recs, file) ==
  IF recs = <<>> THEN 0
  ELSE Count(AssetReferences(Head(recs).sourcemaps), file)
       + getAssetsUsageMap(Tail(recs), file)

\* the files removeFromDisk removes for the recording it has found
FilesRemovedFromDisk(recording, recs) ==
  LET Exclusive(file) == getAssetsUsageMap(recs, file) = 1
      maps == {sm \in Range(recording.sourcemaps) : Exclusive(sm.path)}
  IN {sm.path : sm \in maps}
     \cup {LookupFile(sm.path) : sm \in maps}
     \cup {f \in UNION {Range(sm.originalSources) :
                          sm \in Range(recording.sourcemaps)} : Exclusive(f)}
     \cup (IF recording.path # NoValue THEN {recording.path} ELSE {})

\* the entries removeFromDisk keeps when it is given the text `given`
KeptByRemoveFromDisk(entries, given) ==
  LET Keep(entry) ==
        IF entry.kind \in {"originalSourceAdded", "sourcemapAdded"}
        THEN entry.recordingId # given
        ELSE entry.id # given
  IN SelectSeq(entries, Keep)

\* A proper prefix of the id of recording id: it is the id of no recording and
\* the start of the id of this one only.
Prefix(id) == 0 - id

\* recording.id.startsWith(given)
StartsWith(id, given) == given = id \/ given = Prefix(id)

RECURSIVE FindStartingWith(_, _, _)
FindStartingWith(recs, given, i) ==
  IF i > Len(recs) THEN 0
  ELSE IF StartsWith(recs[i].id, given) THEN i
  ELSE FindStartingWith(recs, given, i + 1)

\* removeFromDisk(id), id being given
RemoveFromDisk(given) ==
  /\ call.pc # "running"
  /\ call.n < MaxCalls
  /\ LET recs == getRecordings(log)
         i == FindStartingWith(recs, given, 1)
         ended == [NoCall EXCEPT !.op = "removeFromDisk", !.pc = "returned",
                                 !.n = call.n + 1, !.result = given]
     IN IF i = 0
        THEN /\ call' = [ended EXCEPT !.success = FALSE]
             /\ UNCHANGED fileVars
        ELSE /\ call' = [ended EXCEPT !.success = TRUE, !.cleaned = {recs[i].id}]
             /\ disk' = disk \ FilesRemovedFromDisk(recs[i], recs)
             /\ log' = Joined(KeptByRemoveFromDisk(readRecordingLog(log), given))
  /\ removed' = disk \ disk'
  /\ tasks' = <<>>
  /\ UNCHANGED <<foldVars, retrying, reporter, wrapper>>

----------------------------------------------------------------------------
(* RemoveSpec: removals of recordings from a log the driver left *)

RemoveLives ==
  {"absent", "unknown", "onDisk", "startedUpload", "uploaded", "unusable",
   "crashed", "crashUploaded"}

\* the log of DriverLog(lives, withMap), the driver having added the source map
\* of recording 1 and its original source a second time when `twice`
DriverLogTwice(lives, withMap, twice) ==
  LET lines == DriverLines(MaxRecordings, lives, withMap)
               \o (IF twice THEN Maps(1, TRUE) ELSE <<>>)
  IN IF lines = <<>> THEN <<>> ELSE Append(lines, EmptyLine)

InitRemove ==
  /\ InitFold
  /\ \E lives \in [RecordingIds -> RemoveLives], withMap \in [RecordingIds -> BOOLEAN],
        twice \in BOOLEAN :
       /\ \A id \in RecordingIds : lives[id] = "absent" => ~withMap[id]
       /\ twice => withMap[1]
       /\ log = DriverLogTwice(lives, withMap, twice)
       /\ disk = FilesOf(log)
  /\ tasks = <<>>
  /\ call = NoCall
  /\ removed = {}

NextRemove ==
  \/ \E id \in RecordingIds : RemoveRecording(id)
  \/ \E id \in RecordingIds : \E given \in {id, Prefix(id)} : RemoveFromDisk(given)

RemoveSpec == InitRemove /\ [][NextRemove]_vars

----------------------------------------------------------------------------
(* Claims about uploadRecording *)

Started(t) == tasks[t].started > 0

NoRemoteCallNoEvent(t) ==
  /\ tasks[t].calls = {}
  /\ tasks[t].conn = "none"
  /\ tasks[t].nReport = 0
  /\ tasks[t].appended = <<>>

\* C3: the upload of a recording whose status is uploaded returns the remote id
\* the recording has, makes no remote call and appends no event.
C3_UploadedShortCircuit ==
  \A t \in DOMAIN tasks :
    (Started(t) /\ tasks[t].rec.status = "uploaded")
      => /\ tasks[t].pc = "returned"
         /\ NoRemoteCallNoEvent(t)
         /\ tasks[t].rec.recordingId # Undefined
              => tasks[t].result = tasks[t].rec.recordingId

\* an uploaded recording with a remote id was uploaded again
C3_Witness ==
  \E t \in DOMAIN tasks :
    /\ Started(t)
    /\ tasks[t].rec.status = "uploaded"
    /\ tasks[t].rec.recordingId # Undefined
    /\ tasks[t].result = tasks[t].rec.recordingId
    /\ call.pc = "returned"

\* the upload of the recording of task t was skipped
Skipped(t) ==
  /\ tasks[t].pc = "returned"
  /\ tasks[t].result = Null
  /\ NoRemoteCallNoEvent(t)

SkipCondition(recording) ==
  \/ recording.status \notin {"onDisk", "startedWrite", "startedUpload", "crashed"}
  \/ (recording.path = NoValue /\ recording.status # "crashed")

\* C4 as claimed: upload skips a recording exactly when its status is not one of
\* onDisk, startedWrite, startedUpload, crashed, or it has no path and is not
\* crashed.
C4_SkippedExactlyWhenIneligible ==
  \A t \in DOMAIN tasks :
    Started(t) => (Skipped(t) <=> SkipCondition(tasks[t].rec))

\* C4 as amended: the same, but for an uploaded recording that has a remote id,
\* whose upload is not a failure: it returns that id.
C4_SkippedUnlessUploaded ==
  \A t \in DOMAIN tasks :
    Started(t) =>
      (Skipped(t) <=>
         /\ SkipCondition(tasks[t].rec)
         /\ ~(tasks[t].rec.status = "uploaded"
              /\ tasks[t].rec.recordingId # Undefined))

\* a recording with an eligible status and no path was skipped
C4_Witness ==
  \E t \in DOMAIN tasks :
    /\ Skipped(t)
    /\ tasks[t].rec.status = "onDisk"
    /\ tasks[t].rec.path = NoValue
    /\ call.pc = "returned"

IsCrashUpload(t) == Started(t) /\ tasks[t].rec.status = "crashed"

\* C10 as claimed: the upload of a crashed recording calls reportCrash once per
\* crashData entry of the recording.
C10_ReportPerCrashData ==
  \A t \in DOMAIN tasks :
    (IsCrashUpload(t) /\ tasks[t].conn # "none")
      => tasks[t].nReport = Len(tasks[t].rec.crashData)

\* C10 as amended: over an open connection reportCrash is called once per
\* crashData entry and once more for the recordingMetadata marker; it is not
\* called when the connection cannot be opened.
C10_ReportPerCrashDataAndMarker ==
  \A t \in DOMAIN tasks :
    IsCrashUpload(t) =>
      /\ tasks[t].conn # "none"
           => tasks[t].nReport = Len(tasks[t].rec.crashData) + 1
      /\ tasks[t].conn = "none" => tasks[t].nReport = 0

\* a crashed recording with two crashData entries was uploaded
C10_Witness ==
  \E t \in DOMAIN tasks :
    /\ IsCrashUpload(t)
    /\ Len(tasks[t].rec.crashData) = 2
    /\ tasks[t].pc = "returned"
    /\ tasks[t].appended = <<"crashUploaded">>

\* the number of lines of the kind given that the log holds for recording id
CountLines(lines, kind, id) ==
  Cardinality({i \in DOMAIN lines : lines[i].kind = kind /\ lines[i].id = id})

\* the calls of the service that begin, carry out or end the upload of the data
TransferCalls ==
  {"beginRecordingUpload", "setRecordingMetadata", "uploadRecording",
   "endRecordingUpload", "uploadSourcemap"}

Reconstructed(t) ==
  LET recs == readRecordings(log, TRUE)
  IN recs[Find(recs, tasks[t].rec.id)]

\* C13: when the transfer of the data has failed at every attempt, the log
\* holds the uploadStarted event of the recording and no uploadFinished event:
\* the recording reconstructs as startedUpload, with the server and the remote
\* id of the upload, and upload does not skip it.
C13_FailedTransferLeavesStartedUpload ==
  \A t \in DOMAIN tasks :
    tasks[t].error = "uploadRecording" =>
      /\ tasks[t].pc = "threw"
      /\ tasks[t].attempt = MaxAttempts
      /\ CountLines(log, "uploadStarted", tasks[t].rec.id) >= 1
      /\ CountLines(log, "uploadFinished", tasks[t].rec.id) = 0
      /\ Reconstructed(t).status = "startedUpload"
      /\ Reconstructed(t).server = Server
      /\ Reconstructed(t).recordingId = tasks[t].remoteId
      /\ uploadSkipReason(Reconstructed(t)) = "none"

\* the transfer of a recording that was on disk has failed five times
C13_Witness ==
  \E t \in DOMAIN tasks :
    /\ tasks[t].error = "uploadRecording"
    /\ tasks[t].rec.status = "onDisk"
    /\ tasks[t].attempt = MaxAttempts
    /\ tasks[t].appended = <<"uploadStarted">>

----------------------------------------------------------------------------
(* Claims about uploadAllRecordings *)

IsBatch == call.op = "uploadAllRecordings"
BatchEnded == IsBatch /\ call.pc \in {"returned", "rejected"}

\* C7: during a batch upload at most min(batchSize or 20, 25) uploads have
\* started and not yet finished.
C7_InFlightBounded ==
  IsBatch =>
    Cardinality({t \in DOMAIN tasks :
                   Started(t) /\ tasks[t].pc \notin {"returned", "threw"}})
      <= Min(IF call.batchSize = 0 THEN 20 ELSE call.batchSize, 25)

\* the bound is reached while a recording waits for its turn
C7_Witness ==
  /\ IsBatch
  /\ call.batchSize > 0
  /\ Cardinality(InFlight(tasks)) = call.batchSize
  /\ \E t \in DOMAIN tasks : ~Started(t)

\* C8: in a batch upload the upload of every selected recording is started
\* exactly once, whatever the outcomes of the others.
C8_EachStartedOnce ==
  IsBatch =>
    /\ \A t \in DOMAIN tasks : tasks[t].started <= 1
    /\ call.pc # "running"
         => \A t \in DOMAIN tasks :
              tasks[t].started = 1 /\ tasks[t].pc \in Settled

\* a batch ended in which an upload raised an error before the last one started
C8_Witness ==
  /\ BatchEnded
  /\ call.concurrency < Len(tasks)
  /\ tasks[1].pc = "threw"
  /\ \A t \in DOMAIN tasks : tasks[t].started = 1

\* C9: the batch upload returns the conjunction of the successes of its items,
\* whatever their outcomes.
C9_ReturnsConjunction ==
  BatchEnded =>
    /\ call.pc = "returned"
    /\ call.success =
         \A t \in DOMAIN tasks :
           tasks[t].pc = "returned" /\ tasks[t].result # Null

\* C12: in a batch, a recording whose metadata fails validation gets no
\* beginRecordingUpload, no transfer and no uploadStarted or uploadFinished
\* event, while every other recording of the batch is still uploaded: each is
\* started once and runs until it settles.
C12_ValidationFailureBlocksOneUpload ==
  IsBatch =>
    \A t \in DOMAIN tasks :
      tasks[t].error = "buildRecordingMetadata" =>
        /\ tasks[t].pc = "threw"
        /\ tasks[t].calls \cap TransferCalls = {}
        /\ tasks[t].appended = <<>>
        /\ CountLines(log, "uploadStarted", tasks[t].rec.id) = 0
        /\ CountLines(log, "uploadFinished", tasks[t].rec.id) = 0
        /\ BatchEnded
             => \A k \in DOMAIN tasks \ {t} :
                  tasks[k].started = 1 /\ tasks[k].pc \in Settled

\* a batch has ended in which the validation failed for one recording and
\* another, started after the failure or before it, was uploaded
C12_Witness ==
  /\ BatchEnded
  /\ \E t \in DOMAIN tasks, k \in DOMAIN tasks :
       /\ tasks[t].error = "buildRecordingMetadata"
       /\ t < k
       /\ tasks[k].pc = "returned"
       /\ tasks[k].appended = <<"uploadStarted", "uploadFinished">>
       /\ Reconstructed(k).status = "uploaded"

----------------------------------------------------------------------------
(* Claims about the removal of asset files *)

NotYetUploaded(r) == r.status \notin {"uploaded", "crashUploaded"}

SourcemapFiles(r) == {sm.path : sm \in Range(r.sourcemaps)}

IsRemoval == call.op \in {"removeRecording", "removeFromDisk"} /\ call.success

\* C5: of two recordings that are not uploaded and share a source-map file,
\* the removal of one leaves the file on disk, and the removal of the other
\* afterwards deletes it.
C5_SharedSourcemapKept ==
  IsRemoval =>
    /\ \A r \in Range(readRecordings(log, TRUE)) :
         (r.id \notin call.cleaned /\ NotYetUploaded(r))
           => SourcemapFiles(r) \cap removed = {}
    /\ readRecordings(log, TRUE) = <<>> => MapFile(SharedMapId) \notin disk

\* C6: the cleanup of the assets of a recording deletes none of the files that
\* another recording of the log, neither uploaded nor crashUploaded, refers to.
C6_CleanupKeepsReferencedFiles ==
  (call.op = "uploadRecording" /\ tasks # <<>>) =>
    \A r \in Range(readRecordings(log, TRUE)) :
      (r.id # tasks[1].rec.id /\ NotYetUploaded(r))
        => getRecordingAssetFiles(r) \cap removed = {}

----------------------------------------------------------------------------
(* ReplaySpec: readRecordings called again and again on one log file *)

\* the lives of the first recording of a log that is read
ReplayLives == Lives \cup {"hidden", "described", "titled"}

\* the lines that are not the text of an event
Junk ==
  {Line(k, Undefined, Undefined, NoValue) :
     k \in {"invalid", "empty", "null", "scalar"}}

\* the lines with `line` put after the first p of them
Insert(lines, p, line) ==
  SubSeq(lines, 1, p) \o <<line>> \o SubSeq(lines, p + 1, Len(lines))

\* a log the driver left, as it is or with one line of junk somewhere in it
InitReplay ==
  /\ InitFold
  /\ \E lives \in [RecordingIds -> ReplayLives], withMap \in [RecordingIds -> BOOLEAN] :
       /\ \A id \in RecordingIds \ {1} :
            lives[id] \in OtherLives /\ withMap[id] = (lives[id] # "absent")
       /\ lives[1] = "absent" => ~withMap[1]
       /\ LET lines == DriverLog(lives, withMap)
          IN \/ log = lines
             \/ \E p \in 0..Len(lines), junk \in Junk : log = Insert(lines, p, junk)
  /\ disk = {}
  /\ tasks = <<>>
  /\ call = NoCall
  /\ removed = {}

\* readRecordings(dir, includeHidden) is called: the file is read and the loop
\* begins (a file without lines is folded at once). call.result still holds
\* what the previous call returned.
ReadRecordings(includeHidden) ==
  /\ call.pc # "running"
  /\ call.n < MaxCalls
  /\ call.n > 0 => includeHidden = call.includeHidden
  /\ recordings' = <<>>
  /\ nread' = 0
  /\ prevStatus' = "none"
  /\ lastLine' = Line("none", Undefined, Undefined, NoValue)
  /\ call' = IF log = <<>>
             THEN [call EXCEPT !.op = "readRecordings", !.pc = "returned",
                               !.n = @ + 1, !.includeHidden = includeHidden,
                               !.result = <<>>]
             ELSE [call EXCEPT !.op = "readRecordings", !.pc = "running",
                               !.n = @ + 1, !.includeHidden = includeHidden]
  /\ UNCHANGED <<fileVars, tasks, removed, retrying, reporter, wrapper>>

\* the loop body of readRecordings on the next line of the file, and the return
\* that follows the last line
ReadNext ==
  /\ call.op = "readRecordings"
  /\ call.pc = "running"
  /\ nread < Len(log)
  /\ LET line == log[nread + 1]
         recs == ApplyLine(recordings, line)
     IN /\ IF Raises(line)
           THEN /\ recordings' = recordings
                /\ call' = [call EXCEPT !.pc = "rejected"]
           ELSE /\ recordings' = recs
                /\ call' = IF nread + 1 = Len(log)
                           THEN [call EXCEPT
                                   !.pc = "returned",
                                   !.result = Returned(recs, call.includeHidden)]
                           ELSE call
        /\ prevStatus' = StatusOf(recordings, TargetId(line))
        /\ lastLine' = line
  /\ nread' = nread + 1
  /\ UNCHANGED <<fileVars, tasks, removed, retrying, reporter, wrapper>>

NextReplay ==
  \/ \E includeHidden \in BOOLEAN : ReadRecordings(includeHidden)
  \/ ReadNext

ReplaySpec == InitReplay /\ [][NextReplay]_vars

----------------------------------------------------------------------------
(* Claims about reading a log file *)

IsRead == call.op = "readRecordings"

Has(lines, kind) == \E i \in DOMAIN lines : lines[i].kind = kind

\* the lines other than those of the kinds given
Without(lines, kinds) ==
  LET Kept(line) == line.kind \notin kinds
  IN SelectSeq(lines, Kept)

\* C16: reading a log that holds a line of invalid JSON does not fail and
\* returns the recordings (ids, statuses, fields) that the fold of the same log
\* without that line gives, wherever the line stands.
C16_InvalidLineIgnored ==
  (IsRead /\ Has(log, "invalid"))
    => /\ call.pc # "rejected"
       /\ call.pc = "returned"
            => call.result =
                 readRecordings(Without(log, {"invalid"}), call.includeHidden)

\* a log with a line of invalid JSON between lines of events has been read, and
\* recordings came out of it
C16_Witness ==
  /\ IsRead /\ call.pc = "returned"
  /\ call.result # <<>>
  /\ \E i \in 2..(Len(log) - 2) : log[i].kind = "invalid"

\* C17: reading a log never fails, and it returns what the fold of the lines
\* that are events gives: invalid JSON, an empty line and JSON that is not an
\* object (null, a number) are skipped.
C17_MalformedLinesSkipped ==
  IsRead
    => /\ call.pc # "rejected"
       /\ call.pc = "returned"
            => call.result =
                 readRecordings(Without(log, {"invalid", "empty", "null", "scalar"}),
                                call.includeHidden)

----------------------------------------------------------------------------
(* RetrySpec: one call of retryWithExponentialBackoff or retryWithLinearBackoff *)

\* the largest maxTries a caller gives
MaxTries == 3

\* the argument maxTries: not given, or a number
TriesArgs == {<<>>} \cup {<<n>> : n \in 0..MaxTries}

\* jitter(): Math.random() * 100, a number from 0 to under 100
Jitters == {0, 99}

RECURSIVE Power(_, _)
Power(b, n) == IF n = 0 THEN 1 ELSE b * Power(b, n - 1)

\* backOffStrategy(iteration) of the two exported functions
Backoff(strategy, iteration, jitter) ==
  IF strategy = "exponential" THEN Power(2, iteration) * 100 + jitter
  ELSE 100 + jitter

ShouldBeUnreachable == <<"Error", "ShouldBeUnreachable">>

\* what the attempt numbered n of asyncFunction resolves with or rejects with
ValueOf(n) == <<"value", n>>
ErrorOf(n) == <<"error", n>>

\* retry that never gives up inside the catch
IsLastAttempt_never(r) == FALSE

\* the test of the catch block: currentAttempt == maxAttempts
IsLastAttempt(r) == r.currentAttempt = r.maxAttempts

\* the test of the while loop and what follows it: the next invocation of
\* asyncFunction, or the throw after the loop
RetryLoop(r) ==
  IF r.currentAttempt <= r.maxAttempts
  THEN [r EXCEPT !.currentAttempt = @ + 1, !.invoked = @ + 1,
                 !.pc = "asyncFunction"]
  ELSE [r EXCEPT !.pc = "threw", !.error = ShouldBeUnreachable]

\* retryWithExponentialBackoff / retryWithLinearBackoff(asyncFunction, onFail,
\* maxTries): retry is called, maxAttempts being 5 when maxTries is not given
Retry(strategy, onFail, maxTries) ==
  /\ retrying.pc = "idle"
  /\ retrying' =
       RetryLoop([NoRetry EXCEPT
                    !.strategy = strategy,
                    !.onFail = onFail,
                    !.maxAttempts =
                       IF maxTries = <<>> THEN MaxAttempts ELSE maxTries[1]])
  /\ UNCHANGED <<foldVars, fileVars, callVars, reporter, wrapper>>

\* the awaited call of asyncFunction settles: the value is returned, or the
\* catch block calls onFail and throws the error or begins to wait
AsyncFunctionSettles(ok, jitter) ==
  /\ retrying.pc = "asyncFunction"
  /\ LET n == retrying.currentAttempt
         caught == [retrying EXCEPT
                      !.errors = Append(@, ErrorOf(n)),
                      !.failed = IF retrying.onFail
                                 THEN Append(@, <<ErrorOf(n), n>>) ELSE @]
     IN retrying' =
          IF ok
          THEN [retrying EXCEPT !.pc = "returned", !.result = ValueOf(n)]
          ELSE IF IsLastAttempt(retrying)
          THEN [caught EXCEPT !.pc = "threw", !.error = ErrorOf(n)]
          ELSE [caught EXCEPT
                  !.pc = "wait",
                  !.waits = Append(@, Backoff(retrying.strategy, n, jitter))]
  /\ UNCHANGED <<foldVars, fileVars, callVars, reporter, wrapper>>

\* the awaited wait is over: the loop goes round
WaitEnds ==
  /\ retrying.pc = "wait"
  /\ retrying' = RetryLoop(retrying)
  /\ UNCHANGED <<foldVars, fileVars, callVars, reporter, wrapper>>

InitRetry ==
  /\ InitFold
  /\ log = <<>>
  /\ disk = {}
  /\ tasks = <<>>
  /\ call = NoCall
  /\ removed = {}

NextRetry ==
  \/ \E strategy \in {"exponential", "linear"}, onFail \in BOOLEAN,
        maxTries \in TriesArgs : Retry(strategy, onFail, maxTries)
  \/ \E ok \in BOOLEAN, jitter \in Jitters : AsyncFunctionSettles(ok, jitter)
  \/ WaitEnds

RetrySpec == InitRetry /\ [][NextRetry]_vars

----------------------------------------------------------------------------
(* Claims about retry *)

Called == retrying.pc # "idle"

\* nothing is invoked once an attempt has succeeded: the attempts before the
\* returned one all failed, and the value is that of the last invocation
ReturnsFirstSuccess ==
  retrying.pc = "returned"
    => /\ Len(retrying.errors) = retrying.invoked - 1
       /\ retrying.result = ValueOf(retrying.invoked)

\* C14 as claimed: retry invokes the operation at most maxAttempts times, 5 by
\* default, invokes nothing after the first attempt that succeeds and returns
\* the value of that attempt.
C14_AtMostMaxAttempts ==
  Called => retrying.invoked <= retrying.maxAttempts /\ ReturnsFirstSuccess

\* C14 as amended: the operation is invoked at most maxAttempts times, and once
\* when maxAttempts is 0; nothing is invoked after the first attempt that
\* succeeds, and the value of that attempt is returned.
C14_AtMostMaxAttemptsOrOne ==
  Called
    => /\ retrying.invoked <= (IF retrying.maxAttempts = 0 THEN 1
                               ELSE retrying.maxAttempts)
       /\ ReturnsFirstSuccess

\* with maxTries not given, four attempts failed and the fifth returned
C14_Witness ==
  /\ retrying.pc = "returned"
  /\ retrying.maxAttempts = MaxAttempts
  /\ retrying.invoked = MaxAttempts
  /\ retrying.result = ValueOf(MaxAttempts)

\* C15: when every attempt has failed, retry rejects with the error of the last
\* attempt, after at least one attempt and without a wait after the last
\* failure, whatever maxAttempts (0 or more) is.
C15_RejectsWithLastError ==
  retrying.pc = "threw"
    => /\ retrying.invoked >= 1
       /\ retrying.error = retrying.errors[Len(retrying.errors)]
       /\ Len(retrying.waits) = retrying.invoked - 1

----------------------------------------------------------------------------
(* ListSpec: listAllRecordings on a log the driver left *)

\* build ids without a dash, with one, with two that touch, and with three
BuildIds ==
  {ChromiumBuildId,
   <<"g", "e", "c", "k", "o">>,
   <<"n", "o", "d", "e", "-", "1">>,
   <<"x", "-", "-", "y">>,
   <<"l", "-", "g", "e", "c", "k", "o", "-", "1", "-", "2">>}

ListLives == Lives \cup {"hidden"}

\* the lines with buildId as the build id of the createRecording lines of id
WithBuildId(lines, id, buildId) ==
  [i \in DOMAIN lines |->
     IF lines[i].kind = "createRecording" /\ lines[i].id = id
     THEN [lines[i] EXCEPT !.arg = buildId]
     ELSE lines[i]]

\* the log of the scenario: createRecording(A, "2023-chromium-x"),
\* writeStarted(A, path), writeFinished(A), uploadStarted(A, server, R1),
\* uploadFinished(A)
ScenarioLog ==
  DriverLog([id \in RecordingIds |-> IF id = 1 THEN "uploaded" ELSE "absent"],
            [id \in RecordingIds |-> FALSE])

InitList ==
  /\ InitFold
  /\ \E lives \in [RecordingIds -> ListLives], buildId \in BuildIds :
       /\ log = WithBuildId(DriverLog(lives, [id \in RecordingIds |-> FALSE]),
                            1, buildId)
       /\ disk = FilesOf(log)
  /\ tasks = <<>>
  /\ call = NoCall
  /\ removed = {}

\* listAllRecordings(opts)
ListAllRecordings(all, filter, includeCrashes) ==
  /\ call.pc = "idle"
  /\ call' = [call EXCEPT
                !.op = "listAllRecordings", !.pc = "returned", !.n = @ + 1,
                !.all = all, !.filter = filter, !.includeCrashes = includeCrashes,
                !.result = listAllRecordings(log, all, filter, includeCrashes)]
  /\ UNCHANGED <<foldVars, fileVars, tasks, removed, retrying, reporter, wrapper>>

NextList ==
  \E all \in BOOLEAN, includeCrashes \in BOOLEAN,
     filter \in {NoFilter, OnDiskFilter} \cup {LocalFilter(id) : id \in RecordingIds} :
    ListAllRecordings(all, filter, includeCrashes)

ListSpec == InitList /\ [][NextList]_vars

----------------------------------------------------------------------------
(* Claims about the listing *)

IsList == call.op = "listAllRecordings"

\* the recording of the scenario as it is listed
ScenarioListed(r) ==
  /\ r.id = 1
  /\ r.status = "uploaded"
  /\ r.recordingId = UploadStarted(1).recordingId
  /\ r.runtime = Chromium

\* runtime is what lies between the first two dashes of buildId
BetweenFirstTwoDashes(buildId, runtime) ==
  \E i \in DOMAIN buildId, j \in DOMAIN buildId :
    /\ i < j
    /\ buildId[i] = Dash /\ buildId[j] = Dash
    /\ \A k \in DOMAIN buildId : (k < j /\ k # i) => buildId[k] # Dash
    /\ runtime = SubSeq(buildId, i + 1, j - 1)

\* the build id that the log gives to recording id
BuildIdOf(lines, id) ==
  LET i == CHOOSE i \in DOMAIN lines :
             lines[i].kind = "createRecording" /\ lines[i].id = id
  IN lines[i].arg

\* C19 as claimed: for the log of the scenario the listing returns exactly
\* one recording, with status uploaded, remote id R1 and runtime chromium.
C19_ScenarioListsOne ==
  (IsList /\ log = ScenarioLog /\ call.filter = NoFilter)
    => Len(call.result) = 1 /\ ScenarioListed(call.result[1])

\* C19 as amended: for the log of the scenario the listing with the flag all and
\* no filter returns exactly one recording, with status uploaded, remote id R1
\* and runtime chromium, and the listing without the flag returns none; the
\* runtime of every recording listed is the part of its build id between the
\* first two dashes.
C19_ScenarioListsOneWithAll ==
  IsList =>
    /\ (log = ScenarioLog /\ call.filter = NoFilter)
         => IF call.all
            THEN Len(call.result) = 1 /\ ScenarioListed(call.result[1])
            ELSE call.result = <<>>
    /\ \A i \in DOMAIN call.result :
         LET buildId == BuildIdOf(log, call.result[i].id)
         IN (\E runtime \in {call.result[i].runtime} :
               BetweenFirstTwoDashes(buildId, runtime))
            \/ (call.result[i].runtime = Unknown
                /\ Cardinality({k \in DOMAIN buildId : buildId[k] = Dash}) < 2)

\* the log of the scenario has been listed with the flag all
C19_Witness ==
  /\ IsList /\ log = ScenarioLog /\ call.all /\ call.filter = NoFilter
  /\ Len(call.result) = 1

\* the recordings that are not hidden, match the filter and, unless all is
\* set, have a status in `statuses`
ExpectedListing(statuses) ==
  LET Expected(r) ==
        /\ ApplyFilter(call.filter, r)
        /\ call.all \/ r.status \in statuses
      recs == SelectSeq(readRecordings(log, FALSE), Expected)
  IN [i \in DOMAIN recs |-> listRecording(recs[i])]

\* C20: when crashes are not forced in, listing without the flag all returns
\* exactly the recordings that are not hidden, match the filter and have a
\* status among onDisk, startedWrite, startedUpload, crashed; with the flag it
\* returns those that are not hidden and match the filter.
C20_ListsUploadEligible ==
  (IsList /\ ~call.includeCrashes)
    => call.result =
         ExpectedListing({"onDisk", "startedWrite", "startedUpload", "crashed"})

----------------------------------------------------------------------------
(* Claims about the identity of recordings and the entries of the log *)

\* C23: the fold adds a recording only for a createRecording line whose id no
\* recording has yet, so that no two recordings share an id and a line whose id
\* was not created has no effect.
C23_OneRecordingPerId ==
  [][/\ Len(recordings') =
          Len(recordings)
          + (IF lastLine'.kind = "createRecording"
                /\ Find(recordings, lastLine'.id) = 0
             THEN 1 ELSE 0)
     /\ \A i \in DOMAIN recordings', j \in DOMAIN recordings' :
          recordings'[i].id = recordings'[j].id => i = j
     /\ (lastLine'.kind # "createRecording"
          /\ Find(recordings, TargetId(lastLine')) = 0)
          => recordings' = recordings]_vars

\* the entries of the log that belong to recording id, and those that belong
\* to the other recordings
IsEntry(line) == line.kind \notin {"invalid", "empty", "null", "scalar"}

EntriesOf(lines, id) ==
  LET Own(line) == IsEntry(line) /\ TargetId(line) = id
  IN SelectSeq(lines, Own)

EntriesOfOthers(lines, id) ==
  LET Other(line) == IsEntry(line) /\ TargetId(line) # id
  IN SelectSeq(lines, Other)

\* the recording a removal that ended has removed is id
RemovedBy(c, id) ==
  \/ c.op = "removeRecording" /\ c.result = id
  \/ c.op = "removeFromDisk" /\ id \in c.cleaned

\* C22: a removal that succeeds leaves no entry of the recording removed in the
\* log, the sourcemapAdded and originalSourceAdded entries that name it
\* included, and leaves the entries of the other recordings as they were, in
\* their order.
C22_RemovalDropsEveryEntry ==
  [][(call'.n # call.n /\ call'.success
      /\ call'.op \in {"removeRecording", "removeFromDisk"})
       => \A id \in RecordingIds :
            RemovedBy(call', id)
              => /\ EntriesOf(log', id) = <<>>
                 /\ EntriesOfOthers(log', id) = EntriesOfOthers(log, id)]_vars

----------------------------------------------------------------------------
(* Claims about the steps of doUploadRecording *)

Entries(lines) == SelectSeq(lines, IsEntry)

\* the tasks whose list of appended events a step has made longer
Appending(before, after) ==
  {t \in DOMAIN after :
     after[t].appended # IF t \in DOMAIN before THEN before[t].appended ELSE <<>>}

\* C24: every append of an upload task of a batch adds its event, and nothing
\* else, after the entries the log has, which stay as they are; whatever the
\* interleaving of the tasks, every event appended is in the log once, in the
\* order of the appends.
C24_AppendsInCallOrder ==
  [][(IsBatch' /\ (log' # log \/ Appending(tasks, tasks') # {}))
       => /\ \E t \in DOMAIN tasks :
               LET before == tasks[t].appended
                   after == tasks'[t].appended
                   entries == Entries(log')
                   e == entries[Len(entries)]
               IN /\ Appending(tasks, tasks') = {t}
                  /\ Len(after) = Len(before) + 1
                  /\ SubSeq(after, 1, Len(before)) = before
                  /\ entries = Append(Entries(log), e)
                  /\ e.kind = after[Len(after)]
                  /\ e.id = tasks[t].rec.id
          /\ \A t \in DOMAIN tasks' : \A k \in DOMAIN tasks'[t].appended :
               CountLines(log', tasks'[t].appended[k], tasks'[t].rec.id) = 1]_vars

\* two tasks of a batch have appended their events in turn: the second started
\* and finished between the uploadStarted and the uploadFinished of the first
C24_Witness ==
  /\ IsBatch
  /\ Len(tasks) = 2
  /\ \A t \in DOMAIN tasks : tasks[t].appended = <<"uploadStarted", "uploadFinished">>
  /\ LET entries == Entries(log)
         n == Len(entries)
         Is(k, kind, t) == entries[k].kind = kind /\ entries[k].id = tasks[t].rec.id
     IN /\ n >= 4
        /\ Is(n - 3, "uploadStarted", 1)
        /\ Is(n - 2, "uploadStarted", 2)
        /\ Is(n - 1, "uploadFinished", 2)
        /\ Is(n, "uploadFinished", 1)

\* the recording of task t can be uploaded by its status and is not a crash,
\* and the file of its data is not on the disk, the task not having removed it
DataFileMissing(t) ==
  /\ Started(t)
  /\ tasks[t].cleanup = "none"
  /\ uploadSkipReason(tasks[t].rec) = "none"
  /\ tasks[t].rec.status \notin {"crashed", "uploaded"}
  /\ tasks[t].rec.path \notin disk

\* C25: the upload of a recording that its status lets upload and whose data
\* file is missing ends with a failure result and no error, without a remote
\* call and without an event.
C25_MissingFileIsSkipped ==
  \A t \in DOMAIN tasks :
    (DataFileMissing(t) /\ tasks[t].pc # "stat")
      => /\ tasks[t].pc = "returned"
         /\ tasks[t].result = Null
         /\ NoRemoteCallNoEvent(t)

\* C27: once beginRecordingUpload has answered the remote id, uploadStarted is
\* in the log before another remote call for the recording is issued, the
\* attachment of the metadata and the transfer of the data included.
C27_UploadStartedBeforeNextCall ==
  \A t \in DOMAIN tasks :
    (/\ tasks[t].remoteId # Undefined
     /\ tasks[t].calls \cap {"setRecordingMetadata", "uploadRecording"} # {})
      => /\ "uploadStarted" \in Range(tasks[t].appended)
         /\ CountLines(log, "uploadStarted", tasks[t].rec.id) >= 1

\* the upload task t made has done what it is for: the crash report, or the
\* data, is with the service and the log says so
UploadSucceeded(t) ==
  /\ tasks[t].pc = "returned"
  /\ IF tasks[t].rec.status = "crashed"
     THEN "crashUploaded" \in Range(tasks[t].appended)
     ELSE tasks[t].result # Null

UploadFailed(t) == tasks[t].pc \in Settled /\ ~UploadSucceeded(t)

\* the status the recording viewed had when viewRecording was called
ViewedStatus ==
  IF tasks # <<>> THEN tasks[1].rec.status
  ELSE StatusOf(readRecordings(log, FALSE), call.result)

\* C21: viewing a crashUploaded recording returns success with no upload and
\* nothing opened; viewing an uploaded one opens the URL with no upload; any
\* other recording is uploaded first, the URL is opened only if the upload
\* succeeded, and a failed upload returns failure with nothing opened.
C21_ViewUploadsThenOpens ==
  (call.op = "viewRecording" /\ call.pc # "running" /\ ViewedStatus # "none")
    => CASE ViewedStatus = "crashUploaded" ->
              /\ call.pc = "returned" /\ call.success
              /\ tasks = <<>> /\ call.opened = NoValue
         [] ViewedStatus = "uploaded" ->
              /\ call.pc = "returned" /\ call.success
              /\ tasks = <<>> /\ call.opened # NoValue
         [] OTHER ->
              /\ tasks # <<>>
              /\ call.opened # NoValue => UploadSucceeded(1)
              /\ UploadFailed(1)
                   => /\ call.pc = "returned" /\ ~call.success
                      /\ call.opened = NoValue

\* C29: removeRecordingAssets is called for a recording only when its
\* uploadFinished is in the log, so that the log shows the recording as
\* uploaded whenever an asset of it is deleted.
C29_CleanupAfterUploadFinished ==
  \A t \in DOMAIN tasks :
    tasks[t].rec.status # "crashed"
      => /\ tasks[t].cleanup \in {"none", "uploaded"}
         /\ (IsBatch /\ tasks[t].rec.id \in call.cleaned)
              => "uploadFinished" \in Range(tasks[t].appended)

----------------------------------------------------------------------------
(* SourcemapSpec: the upload of one recording that has source maps, each with
   original sources *)

\* the source maps of the recording and the original sources of each
MaxMaps == 3
MaxOriginals == 6

OriginalSourceOf(id, k, j) ==
  Line("originalSourceAdded", k, id, <<"original", k, j>>)

\* the lines the driver adds for the source maps 1..m of recording id, each
\* followed by its n original sources
RECURSIVE MapLines(_, _, _)
MapLines(id, m, n) ==
  IF m = 0 THEN <<>>
  ELSE MapLines(id, m - 1, n)
       \o <<SourcemapAdded(id, 200 + m)>>
       \o [j \in 1..n |-> OriginalSourceOf(id, 200 + m, j)]

\* files that may have gone from the disk before the upload
MissingAssets == {{}, {MapFile(201)}, {<<"original", 201, 1>>}}

InitSourcemap ==
  /\ InitFold
  /\ \E m \in 0..MaxMaps, n \in {0, 1, MaxOriginals}, missing \in MissingAssets :
       /\ log = Append(Life(1, "onDisk") \o MapLines(1, m, n), EmptyLine)
       /\ disk = FilesOf(log) \ missing
  /\ tasks = <<>>
  /\ call = NoCall
  /\ removed = {}

NextSourcemap ==
  \/ call.pc = "idle" /\ UploadRecording(1)
  \/ call.pc = "idle" /\ UploadAllRecordings(1, NoFilter, FALSE)
  \/ \E t \in DOMAIN tasks, ok \in BOOLEAN :
       \E rid \in RemoteIds(tasks[t].rec.id) \ {tasks[t].rec.id} : Step(t, ok, rid)
  \/ \E t \in DOMAIN tasks, ok \in BOOLEAN :
       \E i \in DOMAIN tasks[t].maps : MapStep(t, i, ok)

SourcemapSpec == InitSourcemap /\ [][NextSourcemap]_vars

----------------------------------------------------------------------------
(* Claims about the source maps of an upload *)

MapsSettled(t) == \A i \in DOMAIN tasks[t].maps : tasks[t].maps[i].pc = "settled"

\* C26 as claimed: whatever source map or original source cannot be read or
\* uploaded, an upload whose end has been signalled returns the remote id with
\* uploadFinished appended, every source map and every original source of the
\* recording having been attempted.
C26_EverySourceAttempted ==
  \A t \in DOMAIN tasks :
    ("endRecordingUpload" \in tasks[t].completed /\ tasks[t].pc \in Settled)
      => /\ tasks[t].pc = "returned"
         /\ tasks[t].result = tasks[t].remoteId
         /\ "uploadFinished" \in Range(tasks[t].appended)
         /\ \A i \in DOMAIN tasks[t].rec.sourcemaps :
              /\ tasks[t].maps[i].pc = "settled"
              /\ tasks[t].maps[i].started
                   = Len(tasks[t].rec.sourcemaps[i].originalSources)

\* C26 as amended: a source map or an original source that cannot be read or
\* uploaded stops neither the other source maps nor the original sources of
\* the source maps that were uploaded from being attempted (those of a source
\* map that itself failed are not attempted): no source map is left
\* unattempted when none is in flight, every original source of a source map
\* that was uploaded is attempted, and once the end of the upload is signalled
\* the upload ends with uploadFinished appended and the remote id returned.
C26_SourcemapFailuresIsolated ==
  \A t \in DOMAIN tasks :
    LET task == tasks[t]
        sourcemaps == task.rec.sourcemaps
    IN /\ (task.pc = "sourcemaps" /\ InFlightMaps(task.maps) = {}) => MapsSettled(t)
       /\ \A i \in DOMAIN task.maps :
            /\ task.maps[i].pc = "originalSources" => InFlightOriginals(task.maps[i]) > 0
            /\ (task.maps[i].pc = "settled" /\ task.maps[i].started > 0)
                 => /\ task.maps[i].started = Len(sourcemaps[i].originalSources)
                    /\ task.maps[i].done = Len(sourcemaps[i].originalSources)
       /\ ("endRecordingUpload" \in task.completed /\ task.pc \in Settled)
            => /\ task.pc = "returned"
               /\ task.remoteId # Undefined
               /\ task.result = task.remoteId
               /\ "uploadFinished" \in Range(task.appended)
               /\ CountLines(log, "uploadFinished", task.rec.id) = 1
               /\ MapsSettled(t)

\* an upload has returned its remote id after a source map could not be read
\* and an original source of another source map failed, every other original
\* source of that one having been attempted
C26_Witness ==
  \E t \in DOMAIN tasks :
    /\ tasks[t].pc = "returned"
    /\ tasks[t].result = tasks[t].remoteId
    /\ "uploadFinished" \in Range(tasks[t].appended)
    /\ \E i \in DOMAIN tasks[t].maps, j \in DOMAIN tasks[t].maps :
         /\ tasks[t].maps[i].failed /\ tasks[t].maps[i].started = 0
         /\ tasks[t].maps[j].failed
         /\ tasks[t].maps[j].done = MaxOriginals

\* C28: for a recording that is not a crash, uploadFinished is appended only
\* after the transfer has succeeded, the end of the upload has been signalled,
\* and every upload task of a source map or an original source has settled.
C28_UploadFinishedAfterAllSettled ==
  \A t \in DOMAIN tasks :
    (tasks[t].rec.status # "crashed" /\ "uploadFinished" \in Range(tasks[t].appended))
      => /\ {"uploadRecording", "endRecordingUpload"} \subseteq tasks[t].completed
         /\ DOMAIN tasks[t].maps = DOMAIN tasks[t].rec.sourcemaps
         /\ MapsSettled(t)
         /\ \A i \in DOMAIN tasks[t].maps : InFlightOriginals(tasks[t].maps[i]) = 0

\* uploadFinished has been appended for a recording with several source maps,
\* whose original sources have all settled
C28_Witness ==
  \E t \in DOMAIN tasks :
    /\ tasks[t].appended = <<"uploadStarted", "uploadFinished">>
    /\ Len(tasks[t].maps) >= 2
    /\ \A i \in DOMAIN tasks[t].maps :
         ~tasks[t].maps[i].failed /\ tasks[t].maps[i].done = MaxOriginals

\* the remote operations a task awaits
RECURSIVE InFlightOfMaps(_, _)
InFlightOfMaps(ms, i) ==
  IF i > Len(ms) THEN 0
  ELSE (CASE ms[i].pc = "uploadSourcemap" -> 1
          [] ms[i].pc = "originalSources" -> InFlightOriginals(ms[i])
          [] OTHER -> 0)
       + InFlightOfMaps(ms, i + 1)

InFlightOf(task) ==
  CASE task.pc \in {"crashConnect", "initConnection", "buildRecordingMetadata",
                    "beginRecordingUpload", "setRecordingMetadata",
                    "uploadRecording", "endRecordingUpload"} -> 1
    [] task.pc = "reportCrash" -> task.nReport
    [] task.pc = "sourcemaps" -> InFlightOfMaps(task.maps, 1)
    [] OTHER -> 0

RECURSIVE InFlightOfTasks(_, _)
InFlightOfTasks(ts, t) ==
  IF t > Len(ts) THEN 0 ELSE InFlightOf(ts[t]) + InFlightOfTasks(ts, t + 1)

----------------------------------------------------------------------------
(* Claims about the connection of an upload and the fields of a recording *)

\* C31: the connection opened for the upload of a recording is closed whatever
\* the outcome of the upload: once the upload has ended, by returning or by
\* raising an error, no connection of it is left open.
C31_ConnectionClosedAtEnd ==
  \A t \in DOMAIN tasks : tasks[t].pc \in Settled => tasks[t].conn # "open"

Absorbing == {"unusable", "crashUploaded", "crashed"}

\* C32: a writeStarted, uploadStarted or recordingUnusable line for a recording
\* whose status is unusable, crashUploaded or crashed changes no field of any
\* recording.
C32_AbsorbingKeepsEveryField ==
  [][(/\ lastLine'.kind \in {"writeStarted", "uploadStarted", "recordingUnusable"}
      /\ nread' = nread + 1
      /\ prevStatus' \in Absorbing)
       => recordings' = recordings]_vars

----------------------------------------------------------------------------
(* Claims about removeFromDisk and the text of the log *)

\* the source-map files, lookup files and original-source files of a recording
AssetFilesOf(r) ==
  {sm.path : sm \in Range(r.sourcemaps)}
  \cup {LookupFile(sm.path) : sm \in Range(r.sourcemaps)}
  \cup UNION {Range(sm.originalSources) : sm \in Range(r.sourcemaps)}

\* C33: removeFromDisk deletes an asset file of the recording it removes exactly
\* when no other recording that is neither uploaded nor crashUploaded refers to
\* the file, however many times the recording itself refers to it.
C33_RemovesUnsharedAssets ==
  [][(call'.n # call.n /\ call'.op = "removeFromDisk" /\ call'.success)
       => LET recs == getRecordings(log)
              r == recs[FindStartingWith(recs, call'.result, 1)]
              others == {q \in Range(recs) : q.id # r.id /\ NotYetUploaded(q)}
          IN \A f \in AssetFilesOf(r) \cap disk :
               f \in removed' <=> ~\E q \in others : f \in AssetFilesOf(q)]_vars

----------------------------------------------------------------------------
(* Claims about what an upload reports *)

\* C34: the upload of a crashed recording that returns an id has appended
\* crashUploaded for the recording; when the connection could not be opened it
\* returns a failure and removes no asset of the recording.
C34_CrashSuccessMeansCrashUploaded ==
  \A t \in DOMAIN tasks :
    (IsCrashUpload(t) /\ tasks[t].pc = "returned")
      => /\ tasks[t].result # Null
              => /\ tasks[t].appended = <<"crashUploaded">>
                 /\ CountLines(log, "crashUploaded", tasks[t].rec.id) = 1
         /\ tasks[t].conn = "none"
              => /\ tasks[t].result = Null
                 /\ tasks[t].cleanup = "none"

\* C35: when a batch has returned, the assets of the recordings whose upload
\* succeeded have been cleaned, whatever remote id the service gave them, and
\* those of no other recording.
C35_BatchCleansSucceeded ==
  (IsBatch /\ call.pc = "returned")
    => call.cleaned = {tasks[t].rec.id : t \in {u \in DOMAIN tasks : UploadSucceeded(u)}}

\* C36: when the upload of a recording that is not a crash has returned a
\* remote id, the log holds an uploadStarted event of the recording with that
\* id followed by an uploadFinished event of the recording, and the recording
\* reconstructs as uploaded with that remote id.
C36_ReturnedIdIsInLog ==
  \A t \in DOMAIN tasks :
    (/\ tasks[t].rec.status # "crashed"
     /\ tasks[t].pc = "returned"
     /\ tasks[t].result # Null)
      => /\ Find(readRecordings(log, TRUE), tasks[t].rec.id) # 0
         /\ Reconstructed(t).status = "uploaded"
         /\ Reconstructed(t).recordingId = tasks[t].result
         /\ \E j \in DOMAIN log, k \in DOMAIN log :
              /\ j < k
              /\ log[j].kind = "uploadStarted"
              /\ log[j].id = tasks[t].rec.id
              /\ log[j].recordingId = tasks[t].result
              /\ log[k].kind = "uploadFinished"
              /\ log[k].id = tasks[t].rec.id

\* a recording whose earlier upload had stopped after uploadStarted has been
\* uploaded again and the upload has returned the id the service gave
C36_Witness ==
  \E t \in DOMAIN tasks :
    /\ tasks[t].rec.status = "startedUpload"
    /\ tasks[t].pc = "returned"
    /\ tasks[t].result = tasks[t].remoteId
    /\ tasks[t].appended = <<"uploadStarted", "uploadFinished">>
    /\ Reconstructed(t).status = "uploaded"

\* the text of the log is not empty, and it ends with a line terminator: split
\* at the terminators, its last piece is empty
NonEmptyFile(lines) == lines # <<>> /\ lines # <<EmptyLine>>
EndsWithTerminator(lines) == Len(lines) >= 2 /\ lines[Len(lines)] = EmptyLine

\* C37: after an operation that writes the log, the file ends with a line
\* terminator unless it is empty.
C37_LogEndsWithTerminator ==
  ((IsRemoval \/ \E t \in DOMAIN tasks : tasks[t].appended # <<>>)
   /\ NonEmptyFile(log))
    => EndsWithTerminator(log)

\* C38: when removeFromDisk has found a recording, by its id or by a prefix of
\* it, and deleted its files, the log holds no entry of the recording and the
\* recording no longer reconstructs.
C38_RemoveFromDiskCleansLog ==
  (call.op = "removeFromDisk" /\ call.success)
    => \A id \in call.cleaned :
         /\ EntriesOf(log, id) = <<>>
         /\ Find(readRecordings(log, TRUE), id) = 0

----------------------------------------------------------------------------
----------------------------------------------------------------------------
(* ReporterSpec: ReplayReporter, its pending work and onEnd *)

\* number of calls of onTestEnd
MaxTestEnds == 2

\* a promise in pendingWork: the work of an async method that is suspended at
\* an await, or the entry it has returned (none of the methods rejects: each
\* catches and returns an entry with an error)
PendingWork(type, phase) ==
  [type |-> type, phase |-> phase, state |-> "pending", error |-> FALSE]
Fulfilled(type, phase, error) ==
  [type |-> type, phase |-> phase, state |-> "fulfilled", error |-> error]

\* addTestsToShard and completeTestRunShard return an error at once when no
\* shard id is set, and are suspended at their query otherwise
ShardWork(r, type, phase) ==
  IF r.testRunShardId THEN PendingWork(type, phase)
  ELSE Fulfilled(type, phase, TRUE)

\* onTestSuiteBegin: the api key is set and, with a key, startTestRunShard is
\* pushed
OnTestSuiteBegin(key) ==
  /\ ~reporter.begun
  /\ reporter.onEnd = "idle"
  /\ reporter' =
       [reporter EXCEPT
          !.begun = TRUE,
          !.apiKey = key,
          !.pendingWork =
             IF key THEN Append(@, PendingWork("test-run", "start")) ELSE @]
  /\ UNCHANGED <<foldVars, fileVars, callVars, retrying, wrapper>>

\* enqueuePostTestWork up to its first await: the promise of addTestsToShard is
\* pushed; with recordings it is suspended at setRecordingMetadata, without
\* any it returns. The result is the reporter with, last in pendingWork, the
\* promise onTestEnd pushes
enqueuePostTestWork(r, nRecordings) ==
  LET shard == Append(r.pendingWork, ShardWork(r, "test-run-tests", "none"))
      work  == Len(shard) + 1
  IN IF nRecordings > 0
     THEN [r EXCEPT
             !.pendingWork = Append(shard, PendingWork("post-test", "none")),
             !.posts = Append(@, [pc |-> "setRecordingMetadata",
                                  recordings |-> nRecordings, work |-> work])]
     ELSE [r EXCEPT
             !.pendingWork = Append(shard, Fulfilled("post-test", "none", FALSE)),
             !.posts = Append(@, [pc |-> "returned",
                                  recordings |-> 0, work |-> work])]

\* onTestEnd({tests, ...}): nothing without tests, else the promise of
\* enqueuePostTestWork is pushed
OnTestEnd(nTests, nRecordings) ==
  /\ reporter.onEnd = "idle"
  /\ reporter.ended < MaxTestEnds
  /\ reporter' =
       IF nTests = 0 THEN [reporter EXCEPT !.ended = @ + 1]
       ELSE [enqueuePostTestWork(reporter, nRecordings) EXCEPT !.ended = @ + 1]
  /\ UNCHANGED <<foldVars, fileVars, callVars, retrying, wrapper>>

\* the n promises of uploadRecording, each suspended at its upload
Uploads(n) == [i \in 1..n |-> PendingWork("upload", "none")]

\* enqueuePostTestWork after its await: when setRecordingMetadata has resolved
\* the uploads are pushed and the post-test entry is returned, when it has
\* thrown the error is caught and returned
AfterSetRecordingMetadata(r, p, ok) ==
  LET post == r.posts[p]
  IN [r EXCEPT
        !.posts[p].pc = "returned",
        !.pendingWork =
           IF ok
           THEN [@ EXCEPT ![post.work] = Fulfilled("post-test", "none", FALSE)]
                  \o Uploads(post.recordings)
           ELSE [@ EXCEPT ![post.work] = Fulfilled("post-test", "none", TRUE)]]

\* the awaited setRecordingMetadata of a post-test work settles
MetadataSettles(p, ok) ==
  /\ p \in DOMAIN reporter.posts
  /\ reporter.posts[p].pc = "setRecordingMetadata"
  /\ reporter' = AfterSetRecordingMetadata(reporter, p, ok)
  /\ UNCHANGED <<foldVars, fileVars, callVars, retrying, wrapper>>

\* the query or the upload a work is suspended at settles and the work returns
\* its entry; startTestRunShard sets the shard id
WorkSettles(i, ok) ==
  /\ i \in DOMAIN reporter.pendingWork
  /\ reporter.pendingWork[i].state = "pending"
  /\ reporter.pendingWork[i].type # "post-test"
  /\ LET w == reporter.pendingWork[i]
     IN reporter' =
          [reporter EXCEPT
             !.pendingWork[i] = Fulfilled(w.type, w.phase, ~ok),
             !.testRunShardId = IF w.phase = "start" /\ ok THEN TRUE ELSE @]
  /\ UNCHANGED <<foldVars, fileVars, callVars, retrying, wrapper>>

\* onEnd up to its await: with a key completeTestRunShard is pushed; without
\* pending work it returns, else it awaits Promise.allSettled of the promises
\* pendingWork holds at this moment
OnEnd ==
  /\ reporter.onEnd = "idle"
  /\ LET work == IF reporter.apiKey
                 THEN Append(reporter.pendingWork,
                             ShardWork(reporter, "test-run", "complete"))
                 ELSE reporter.pendingWork
     IN reporter' =
          [reporter EXCEPT
             !.pendingWork = work,
             !.awaited = Len(work),
             !.onEnd = IF work = <<>> THEN "resolved" ELSE "allSettled"]
  /\ UNCHANGED <<foldVars, fileVars, callVars, retrying, wrapper>>

\* Promise.allSettled resolves when the promises it was given have settled, and
\* onEnd returns the entries
OnEndResolves ==
  /\ reporter.onEnd = "allSettled"
  /\ \A i \in 1..reporter.awaited : reporter.pendingWork[i].state # "pending"
  /\ reporter' = [reporter EXCEPT !.onEnd = "resolved"]
  /\ UNCHANGED <<foldVars, fileVars, callVars, retrying, wrapper>>

InitReporter ==
  /\ InitFold
  /\ log = <<>>
  /\ disk = {}
  /\ tasks = <<>>
  /\ call = NoCall
  /\ removed = {}

NextReporter ==
  \/ \E key \in BOOLEAN : OnTestSuiteBegin(key)
  \/ \E nTests \in 0..1, nRecordings \in 0..MaxRecordings :
       OnTestEnd(nTests, nRecordings)
  \/ \E p \in 1..MaxTestEnds, ok \in BOOLEAN : MetadataSettles(p, ok)
  \/ \E i \in 1..(2 + MaxTestEnds * (2 + MaxRecordings)), ok \in BOOLEAN :
       WorkSettles(i, ok)
  \/ OnEnd
  \/ OnEndResolves

ReporterSpec == InitReporter /\ [][NextReporter]_vars

\* C39: when onEnd has resolved, no work in pendingWork is pending, the uploads
\* enqueuePostTestWork pushes after setRecordingMetadata included.
C39_OnEndAwaitsAllWork ==
  reporter.onEnd = "resolved"
    => /\ \A p \in DOMAIN reporter.posts : reporter.posts[p].pc = "returned"
       /\ \A i \in DOMAIN reporter.pendingWork :
            reporter.pendingWork[i].state # "pending"

----------------------------------------------------------------------------
----------------------------------------------------------------------------
(* WrapperSpec: the registrar cypressOnWrapper returns, and its dispatchers *)

\* number of calls of the registrar, and of distinct handlers
MaxOnCalls == 3
MaxHandlers == 2

Handlers == 1..MaxHandlers

\* the function makeHandlerDispatcher(e) returns, as base is given it
Dispatcher == 0

WrappedEvents == {"task"} \cup SingleHandlerEvents \cup MultiHandlerEvents

\* the registrar calling base for every handler it is given
on_baseEveryTime(w, e, h) ==
  IF e \in MultiHandlerEvents
  THEN [w EXCEPT !.handlers[e] = Append(@, h),
                 !.base = Append(@, [e |-> e, h |-> Dispatcher]),
                 !.threw = FALSE]
  ELSE [w EXCEPT !.base = Append(@, [e |-> e, h |-> h]), !.threw = FALSE]

\* (e, h) => ...: a task handler goes to base; a single-handler event goes to
\* base once and throws after that; any other handler is pushed and base is
\* given the dispatcher of the event with the first one
on(w, e, h) ==
  IF e = "task"
  THEN [w EXCEPT !.base = Append(@, [e |-> e, h |-> h]), !.threw = FALSE]
  ELSE IF e \in SingleHandlerEvents
  THEN IF w.singleHandlerEvents[e]
       THEN [w EXCEPT !.threw = TRUE]
       ELSE [w EXCEPT !.singleHandlerEvents[e] = TRUE,
                      !.base = Append(@, [e |-> e, h |-> h]),
                      !.threw = FALSE]
  ELSE LET hs == Append(w.handlers[e], h)
       IN [w EXCEPT !.handlers[e] = hs,
                    !.base = IF Len(hs) = 1
                             THEN Append(@, [e |-> e, h |-> Dispatcher])
                             ELSE @,
                    !.threw = FALSE]

\* a plugin registers handler h for event e
On(e, h) ==
  /\ wrapper.calls < MaxOnCalls
  /\ wrapper' = [on(wrapper, e, h) EXCEPT !.calls = @ + 1]
  /\ UNCHANGED <<foldVars, fileVars, callVars, retrying, reporter>>

\* Cypress emits e and calls the dispatcher base was given for it: the loop
\* calls the first handler and awaits it
Dispatch(e) ==
  /\ wrapper.pc \in {"idle", "returned", "rejected"}
  /\ \E b \in DOMAIN wrapper.base :
       wrapper.base[b] = [e |-> e, h |-> Dispatcher]
  /\ wrapper' =
       [wrapper EXCEPT !.e = e, !.pc = "awaiting",
                       !.ran = <<wrapper.handlers[e][1]>>,
                       !.settled = 0, !.iterated = <<>>, !.launchOptions = 0]
  /\ UNCHANGED <<foldVars, fileVars, callVars, retrying, reporter>>

\* the dispatcher after its await: a rejection leaves the loop and rejects the
\* dispatch; else, for before:browser:launch, the options the handler
\* returned replace the current ones, and the loop calls the next handler of
\* the array as it is now, or returns after the last
AfterHandler(w, ok, returned) ==
  LET hs == w.handlers[w.e]
      i  == Len(w.ran)
      settled == [w EXCEPT !.settled = @ + 1]
  IN IF ~ok
     THEN [settled EXCEPT !.pc = "rejected", !.iterated = hs]
     ELSE LET next ==
                [settled EXCEPT
                   !.launchOptions =
                      IF w.e = "before:browser:launch" /\ returned
                      THEN w.ran[i] ELSE @]
          IN IF i < Len(hs)
             THEN [next EXCEPT !.ran = Append(@, hs[i + 1])]
             ELSE [next EXCEPT !.pc = "returned", !.iterated = hs]

\* the handler the dispatcher awaits settles
HandlerSettles(ok, returned) ==
  /\ wrapper.pc = "awaiting"
  /\ wrapper' = AfterHandler(wrapper, ok, returned)
  /\ UNCHANGED <<foldVars, fileVars, callVars, retrying, reporter>>

InitWrapper ==
  /\ InitFold
  /\ log = <<>>
  /\ disk = {}
  /\ tasks = <<>>
  /\ call = NoCall
  /\ removed = {}

NextWrapper ==
  \/ \E e \in WrappedEvents, h \in Handlers : On(e, h)
  \/ \E e \in MultiHandlerEvents : Dispatch(e)
  \/ \E ok \in BOOLEAN, returned \in BOOLEAN : HandlerSettles(ok, returned)

WrapperSpec == InitWrapper /\ [][NextWrapper]_vars

\* the number of calls of base for event e
BaseCalls(e) ==
  Cardinality({b \in DOMAIN wrapper.base : wrapper.base[b].e = e})

\* base was called once for each event that has handlers, with the dispatcher
BaseCalledOnce ==
  \A e \in MultiHandlerEvents :
    /\ BaseCalls(e) = IF wrapper.handlers[e] = <<>> THEN 0 ELSE 1
    /\ \A b \in DOMAIN wrapper.base :
         wrapper.base[b].e = e => wrapper.base[b].h = Dispatcher

\* the handlers a dispatch has called are the first of the registered ones in
\* the order of registration, and at most the last of them has not settled
OneAfterAnother ==
  wrapper.pc # "idle"
    => /\ wrapper.ran = SubSeq(wrapper.handlers[wrapper.e], 1, Len(wrapper.ran))
       /\ Len(wrapper.ran) - wrapper.settled \in {0, 1}

\* C40 (as claimed): base is called once per event however many handlers are
\* registered, and every dispatch runs all the registered handlers, one after
\* another in the order of registration.
C40_DispatchRunsAllHandlers ==
  /\ BaseCalledOnce
  /\ OneAfterAnother
  /\ wrapper.pc \in {"returned", "rejected"} => wrapper.ran = wrapper.iterated

\* C40 (as amended): base is called once per event however many handlers are
\* registered; a dispatch runs the registered handlers one after another in the
\* order of registration, all of them when none rejects, and up to the first
\* that rejects otherwise.
C40_DispatchRunsHandlersInOrder ==
  /\ BaseCalledOnce
  /\ OneAfterAnother
  /\ wrapper.pc = "returned" => wrapper.ran = wrapper.iterated
  /\ wrapper.pc = "rejected" => wrapper.settled = Len(wrapper.ran)

\* two handlers are registered for an event, base was called once for it, and
\* a dispatch has run both
C40_Witness ==
  /\ wrapper.pc = "returned"
  /\ Len(wrapper.ran) >= 2
  /\ wrapper.ran = wrapper.handlers[wrapper.e]
  /\ BaseCalls(wrapper.e) = 1
====
